---- MODULE Spec2Model ----
(***************************************************************************)
(* Model of the importer/exporter reconciliation engine of elAPI_Plugins:  *)
(* the paged fetcher (src/utils/common.py), and the bulk importers         *)
(* (src/services/importers).  Strings are sequences of one-character       *)
(* strings, so that case folding and canonicalisation are computed.        *)
(***************************************************************************)
EXTENDS Integers, Sequences, FiniteSets, TLC

VARIABLES
    \* ---- paged_fetch (src/utils/common.py) ----
    pf_pc,          \* "idle" | "get" | "done" | "raised"
    page_size,      \* keyword argument page_size
    max_retries,    \* keyword argument max_retries
    min_limit,      \* keyword argument min_limit
    offset,         \* local offset
    attempt,        \* local attempt
    current_limit,  \* local current_limit
    calls,          \* history: the get_page(limit, offset) calls issued
    resps,          \* history: what each call produced (page length, TIMEOUT, ERROR)
    yielded,        \* history: the items yielded so far
    coll_size,      \* the number of items of the collection behind get_page
    skipped,        \* history: a window was given up after exhausted retries
    \* ---- importers (src/services/importers) ----
    imp_kind,       \* "none" | "resources" | "experiments"
    columns,        \* the header of the CSV table
    df,             \* the rows of the CSV table
    templates,      \* [self |-> self._template, arg |-> the template argument]
    row_i,          \* rows the bulk loop has taken so far
    run,            \* "idle" | "running" | "done" | "raised" | "patched" | "attached"
    err,            \* the exception that ended the run (NoErr: none)
    log,            \* history: the HTTP calls issued, in order
    ids,            \* create_all_from_csv: the ids collected so far
    new_resources_counter,  \* self._new_resources_counter
    invoked,        \* history: the patch_existing / attach_files calls made, with their arguments
    \* ---- helper functions called on their own ----
    fn,             \* "none" | "coerce" | "index" | "find" | ...: the helper called
    fn_pc,          \* "idle" | "called" | "returned"
    fn_args,        \* the arguments of the call
    fn_ret,         \* the value returned
    \* ---- ResourcesExporter.fetch_data (src/services/exporters) ----
    ex_pc,          \* "idle" | "start" | "get" | "done" | "raised"
    ex_start,       \* argument start_offset
    ex_page_size,   \* argument page_size
    ex_offset,      \* local offset
    ex_rows,        \* local rows
    ex_table,       \* the table returned
    ex_events       \* history: the validation and the page GETs, with their pages

pfVars == <<pf_pc, page_size, max_retries, min_limit, offset, attempt,
            current_limit, calls, resps, yielded, coll_size, skipped>>

impVars == <<imp_kind, columns, df, templates, row_i, run, err, log, ids,
             new_resources_counter, invoked>>

fnVars == <<fn, fn_pc, fn_args, fn_ret>>

exVars == <<ex_pc, ex_start, ex_page_size, ex_offset, ex_rows, ex_table, ex_events>>

vars == <<pfVars, impVars, fnVars, exVars>>

\* ------------------------------------------------------------------------
\* Bounds of the model
MaxPageSize == 6
MaxRetries == 2
MaxMinLimit == 2
MaxPageLen == 3
MaxCalls == 5
MaxRows == 2
MaxItems == 4

\* ------------------------------------------------------------------------
\* Generic helpers
Max(a, b) == IF a >= b THEN a ELSE b
Min(a, b) == IF a <= b THEN a ELSE b

\* ------------------------------------------------------------------------
\* paged_fetch

\* get_page raising ReadTimeout / ConnectTimeout, or any other exception
TIMEOUT == -1
ERROR == -2

\* math.ceil(current_limit / 2), floor variant used as a mutant
FloorHalf(n) == n \div 2
CeilHalf(n) == (n + 1) \div 2

\* current_limit = max(min_limit, math.ceil(current_limit / 2))
ReducedLimit(lim) == Max(min_limit, CeilHalf(lim))

\* the items of a page of n items served at offset off: off+1 .. off+n
PageItems(off, n) == [i \in 1..n |-> off + i]

PfInit ==
    /\ pf_pc = "get"
    /\ page_size \in 1..MaxPageSize
    /\ max_retries \in 0..MaxRetries
    /\ min_limit \in 1..MaxMinLimit
    /\ offset = 0
    /\ attempt = 0
    /\ current_limit = page_size
    /\ calls = <<>>
    /\ resps = <<>>
    /\ yielded = <<>>
    /\ coll_size = 0
    /\ skipped = FALSE

PfParamsUnchanged ==
    UNCHANGED <<page_size, max_retries, min_limit, coll_size, skipped,
                impVars, fnVars, exVars>>

\* one history entry per get_page call: its arguments, the attempt counter and
\* the number of items yielded before it
PfCall == [limit |-> current_limit, offset |-> offset, attempt |-> attempt,
           ny |-> Len(yielded)]

\* "if not page: if attempt >= max_retries: ... continue" versus "break"
SkipWindowMutant == FALSE
SkipWindow == attempt >= max_retries

\* outer loop: next window starts with attempt = 0, current_limit = page_size
\* "offset += current_limit"
AdvancedOffsetMutant == offset + page_size
AdvancedOffset == offset + current_limit

PfNextWindow ==
    /\ offset' = AdvancedOffset
    /\ attempt' = 0
    /\ current_limit' = page_size
    /\ pf_pc' = "get"

PfStop ==
    /\ pf_pc' = "done"
    /\ UNCHANGED <<offset, attempt, current_limit>>

\* the part of the outer loop body after the inner loop, for a page of n items
PfAfterPage(n) ==
    IF n = 0
    THEN /\ yielded' = yielded
         /\ IF SkipWindow THEN PfNextWindow ELSE PfStop
    ELSE /\ yielded' = yielded \o PageItems(offset, n)
         /\ IF n < current_limit THEN PfStop ELSE PfNextWindow

\* get_page(current_limit, offset) returns a page of n items
PfPage(n) ==
    /\ pf_pc = "get"
    /\ Len(calls) < MaxCalls
    /\ calls' = Append(calls, PfCall)
    /\ resps' = Append(resps, n)
    /\ PfAfterPage(n)
    /\ PfParamsUnchanged

\* retries exhausted: page = [] and the inner loop ends
PfExhaustedMutant ==
    /\ pf_pc' = "raised"
    /\ UNCHANGED <<offset, attempt, current_limit, yielded>>
PfExhausted == PfAfterPage(0)

\* get_page raises a timeout-class exception
PfTimeout ==
    /\ pf_pc = "get"
    /\ Len(calls) < MaxCalls
    /\ calls' = Append(calls, PfCall)
    /\ resps' = Append(resps, TIMEOUT)
    /\ IF attempt >= max_retries
       THEN PfExhausted
       ELSE /\ attempt' = attempt + 1
            /\ current_limit' = ReducedLimit(current_limit)
            /\ UNCHANGED <<offset, pf_pc, yielded>>
    /\ PfParamsUnchanged

\* get_page raises an exception that is not in Timeouts: it propagates
PfError ==
    /\ pf_pc = "get"
    /\ Len(calls) < MaxCalls
    /\ calls' = Append(calls, PfCall)
    /\ resps' = Append(resps, ERROR)
    /\ pf_pc' = "raised"
    /\ UNCHANGED <<offset, attempt, current_limit, yielded>>
    /\ PfParamsUnchanged

PfNext ==
    \/ \E n \in 0..MaxPageLen : PfPage(n)
    \/ PfTimeout
    \/ PfError

\* ------------------------------------------------------------------------
\* Strings: a Python str is a sequence of one-character strings.

NaN == <<"<nan>">>      \* pandas NaN (an empty CSV cell)
None == <<"<none>">>    \* Python None
EmptyStr == <<>>

UpperChars == <<"A","B","C","D","E","F","G","H","I","J","K","L","M",
                "N","O","P","Q","R","S","T","U","V","W","X","Y","Z">>
LowerChars == <<"a","b","c","d","e","f","g","h","i","j","k","l","m",
                "n","o","p","q","r","s","t","u","v","w","x","y","z">>
Digits == {"0","1","2","3","4","5","6","7","8","9"}

\* str.lower() on one character
LowerChar(c) ==
    IF \E i \in 1..Len(UpperChars) : UpperChars[i] = c
    THEN LowerChars[CHOOSE i \in 1..Len(UpperChars) : UpperChars[i] = c]
    ELSE c

\* str.lower()
Lower(s) == [i \in 1..Len(s) |-> LowerChar(s[i])]

\* str.replace(a, "") and str.replace(a, b) for single characters
RemoveChar(s, a) == SelectSeq(s, LAMBDA c : c # a)
ReplaceChar(s, a, b) == [i \in 1..Len(s) |-> IF s[i] = a THEN b ELSE s[i]]

\* str.strip(): leading and trailing blanks removed
RECURSIVE LStrip(_)
LStrip(s) == IF s # <<>> /\ Head(s) = " " THEN LStrip(Tail(s)) ELSE s
RECURSIVE RStrip(_)
RStrip(s) ==
    IF s # <<>> /\ s[Len(s)] = " " THEN RStrip(SubSeq(s, 1, Len(s) - 1)) ELSE s
Strip(s) == RStrip(LStrip(s))

\* str.rstrip("/")
RECURSIVE RStripSlash(_)
RStripSlash(s) ==
    IF s # <<>> /\ s[Len(s)] = "/"
    THEN RStripSlash(SubSeq(s, 1, Len(s) - 1)) ELSE s

\* str.isdigit()
IsDigit(s) == Len(s) > 0 /\ \A i \in 1..Len(s) : s[i] \in Digits

\* sub in s
Contains(sub, s) ==
    \E i \in 0..(Len(s) - Len(sub)) : SubSeq(s, i + 1, i + Len(sub)) = sub

\* ch in s
HasChar(s, ch) == \E i \in 1..Len(s) : s[i] = ch

\* str.split(d) for a single-character delimiter
RECURSIVE Split(_, _)
Split(s, d) ==
    IF ~HasChar(s, d) THEN <<s>>
    ELSE LET i == CHOOSE j \in 1..Len(s) :
                      s[j] = d /\ \A k \in 1..(j - 1) : s[k] # d
         IN <<SubSeq(s, 1, i - 1)>> \o Split(SubSeq(s, i + 1, Len(s)), d)

\* a CSV cell that pandas read as a float: the marker, then its decimal text
FLOAT == "<float>"
IsFloat(v) == v # <<>> /\ Head(v) = FLOAT

\* str(value) of a CSV cell: NaN prints as "nan", a float as its decimal text
StrOf(v) == IF v = NaN THEN <<"n","a","n">> ELSE IF IsFloat(v) THEN Tail(v) ELSE v

\* src/utils/content_extraction.py, src/utils/common.py: canonicalize
canonicalize(name) == ReplaceChar(RemoveChar(Lower(name), " "), "-", "_")

\* sequence helpers
SeqToSet(q) == {q[i] : i \in 1..Len(q)}
RECURSIVE Flatten(_)
Flatten(qq) == IF qq = <<>> THEN <<>> ELSE Head(qq) \o Flatten(Tail(qq))

\* an ordered dict is a sequence of <<key, value>> pairs with distinct keys
DictHas(d, k) == \E i \in 1..Len(d) : d[i][1] = k
DictGet(d, k) == d[CHOOSE i \in 1..Len(d) : d[i][1] = k][2]
DictKeys(d) == [i \in 1..Len(d) |-> d[i][1]]
\* d[k] = v: an existing key keeps its position, a new key goes last
DictSet(d, k, v) ==
    IF DictHas(d, k)
    THEN [i \in 1..Len(d) |-> IF d[i][1] = k THEN <<k, v>> ELSE d[i]]
    ELSE Append(d, <<k, v>>)
\* "if k not in d: d[k] = v" (first wins)
DictSetDefaultMutant(d, k, v) == DictSet(d, k, v)
DictSetDefault(d, k, v) == IF DictHas(d, k) THEN d ELSE Append(d, <<k, v>>)

\* ------------------------------------------------------------------------
\* BaseImporter helpers (src/services/importers/base_importer.py)

EmptyMap == [k \in {} |-> None]

\* the literals the importers use
s_title == <<"t","i","t","l","e">>
s_tags == <<"t","a","g","s">>
s_body == <<"b","o","d","y">>
s_category == <<"c","a","t","e","g","o","r","y">>
s_template == <<"t","e","m","p","l","a","t","e">>
s_id == <<"i","d">>
s_date == <<"d","a","t","e">>
s_select == <<"s","e","l","e","c","t">>
s_text == <<"t","e","x","t">>
s_categoryid == <<"c","a","t","e","g","o","r","y","i","d">>

\* _build_column_indexes: (lower_map, canon_map), first header wins
RECURSIVE FirstWins(_, _)
FirstWins(pairs, acc) ==
    IF pairs = <<>> THEN acc
    ELSE FirstWins(Tail(pairs), DictSetDefault(acc, Head(pairs)[1], Head(pairs)[2]))
LowerMap(cols) == FirstWins([i \in 1..Len(cols) |-> <<Lower(cols[i]), cols[i]>>], <<>>)
CanonMap(cols) ==
    FirstWins([i \in 1..Len(cols) |-> <<canonicalize(cols[i]), cols[i]>>], <<>>)

\* _find_col_like: first canonical key containing the canonical target
FindColLike(cols, target) ==
    LET cm == CanonMap(cols)
        key == canonicalize(target)
        hits == {i \in 1..Len(cm) : Contains(key, cm[i][1])}
    IN IF hits = {} THEN None
       ELSE cm[CHOOSE i \in hits : \A j \in hits : i <= j][2]

\* cols_lower.get(name)
ColsLowerGet(cols, name) ==
    IF DictHas(LowerMap(cols), name) THEN DictGet(LowerMap(cols), name) ELSE None

\* row[col] for a header col of the table
Cell(cols, row, col) == row[CHOOSE i \in 1..Len(cols) : cols[i] = col]

\* get_title: None when there is no title column or the stripped str() is empty
get_title(cols, row) ==
    LET title_col == ColsLowerGet(cols, s_title)
    IN IF title_col = None THEN None
       ELSE LET t == Strip(StrOf(Cell(cols, row, title_col)))
            IN IF t = EmptyStr THEN None ELSE t

\* ExperimentsImporter._get_title, which the source tree calls but does not
\* define: the title of the resolved "title" column, None when it is empty
_get_title(cols, row) == get_title(cols, row)

\* get_tags: split on the first of ; , | that occurs, strip, drop empty parts
StripParts(parts) ==
    SelectSeq([i \in 1..Len(parts) |-> Strip(parts[i])], LAMBDA x : x # EmptyStr)
\* "for delim in [";", ",", "|"]"
TagDelimsMutant == <<",", ";", "|">>
TagDelims == <<";", ",", "|">>
get_tags(cols, row) ==
    LET tags_col == ColsLowerGet(cols, s_tags)
    IN IF tags_col = None THEN <<>>
       ELSE LET val == Cell(cols, row, tags_col)
                found == {k \in 1..Len(TagDelims) : HasChar(val, TagDelims[k])}
            IN IF val = NaN THEN <<>>
               ELSE IF IsFloat(val) THEN <<Strip(StrOf(val))>>
               ELSE IF found # {}
               THEN StripParts(Split(val,
                        TagDelims[CHOOSE k \in found : \A m \in found : k <= m]))
               ELSE StripParts(<<val>>)

\* get_elab_id: last path segment of str(Location); None stands for the error
s_None == <<"N","o","n","e">>
LastSegment(location) ==
    LET loc == IF location = None THEN s_None ELSE location
        parts == Split(RStripSlash(loc), "/")
    IN parts[Len(parts)]
get_elab_idMutant(location) == LastSegment(location)
get_elab_id(location) ==
    IF IsDigit(LastSegment(location)) THEN LastSegment(location) ELSE None

\* an HTTP call as the endpoint sees it, and the response it gave
\* (ok: a 2xx response; exc: the endpoint raised instead of responding;
\* resp: what the response carried)
NoDecoded == [islist |-> FALSE, fields |-> <<>>]
NoRec == [fetched |-> FALSE, mkind |-> "absent", extra_fields |-> <<>>,
          other |-> EmptyStr, decoded |-> NoDecoded]
NoResp == [status |-> 0, text |-> EmptyStr, location |-> None, rec |-> NoRec]
HttpCall(r, op, id, sub, data, ok) ==
    [row |-> r, op |-> op, id |-> id, sub |-> sub, data |-> data, ok |-> ok,
     exc |-> FALSE, resp |-> NoResp]
HttpExc(r, op, id, sub, data) ==
    [row |-> r, op |-> op, id |-> id, sub |-> sub, data |-> data, ok |-> FALSE,
     exc |-> TRUE, resp |-> NoResp]
\* the same call with the response's status, text and Location, or its JSON
Answered(call, a) ==
    [call EXCEPT !.resp.status = a.status, !.resp.text = a.text,
                 !.resp.location = a.location]
Fetched(call, rec) == [call EXCEPT !.resp.rec = rec]

\* an exception: its type, the status code and body text its message carries,
\* and the files it lists
NoErr == [type |-> "none", status |-> 0, text |-> EmptyStr, files |-> <<>>]
Raise(type, status, text) ==
    [type |-> type, status |-> status, text |-> text, files |-> <<>>]

\* json.dumps(obj) and json.loads: a JSON text is the object tagged as text
JsonDumps(obj) == [json |-> TRUE, obj |-> obj]

\* a fetched record (response of GET): fetched = FALSE when the GET raised or
\* returned no JSON object; mkind tells how "metadata" came: absent, object,
\* JSON text, or text that does not parse
Record(fetched, mkind, extra_fields, other, decoded) ==
    [fetched |-> fetched, mkind |-> mkind, extra_fields |-> extra_fields,
     other |-> other, decoded |-> decoded]

\* post_extra_fields_from_row / patch_existing: the metadata object parsed
\* from existing_json, with extra_fields defaulted to {}
ParsedMetadata(rec) ==
    IF rec.fetched /\ rec.mkind \in {"obj", "str"}
    THEN [extra_fields |-> rec.extra_fields, other |-> rec.other]
    ELSE [extra_fields |-> <<>>, other |-> EmptyStr]

\* an extra-field definition; null = the slot is not a dict
Defn(type, options, multi, value) ==
    [null |-> FALSE, type |-> type, options |-> options, multi |-> multi,
     value |-> value]
\* a value: a string (one element, list = FALSE) or a list of strings
StrVal(x) == [list |-> FALSE, v |-> <<x>>]
ListVal(xs) == [list |-> TRUE, v |-> xs]
NoVal == [list |-> FALSE, v |-> <<>>]

\* ------------------------------------------------------------------------
\* ResourcesImporter (src/services/importers/resources_importer.py)

NBSP == "<nbsp>"

\* _KNOWN_POST_FIELDS
KnownPostFields == {s_title, s_tags, s_category, s_template, s_body}

\* _split_multi
_split_multi(raw) ==
    StripParts(Split(ReplaceChar(ReplaceChar(raw, NBSP, " "), ";", ","), ","))

\* options_set = {str(o).strip() for o in options}
OptionsSet(defn) == {Strip(defn.options[i]) : i \in 1..Len(defn.options)}

\* lower_map.get(v.lower()): the option equal to v up to letter case, or None
\* (the options of the model never differ in letter case only)
LowerGet(opts, v) ==
    IF \E o \in opts : Lower(o) = Lower(v)
    THEN CHOOSE o \in opts : Lower(o) = Lower(v)
    ELSE None

\* the case-insensitive pass of the multi-value branch
RECURSIVE PickLower(_, _, _)
PickLower(vals, opts, picked) ==
    IF vals = <<>> THEN picked
    ELSE LET m == LowerGet(opts, Head(vals))
         IN PickLower(Tail(vals), opts,
                      IF m # None /\ m # EmptyStr /\ m \notin SeqToSet(picked)
                      THEN Append(picked, m) ELSE picked)

\* the result of coercion: none = TRUE stands for None
Coerced(val) == [none |-> FALSE, val |-> val]
CoercedNone == [none |-> TRUE, val |-> NoVal]

\* first element of a sequence satisfying membership in a set, or None
FirstIn(vals, S) ==
    IF \E i \in 1..Len(vals) : vals[i] \in S
    THEN vals[CHOOSE i \in 1..Len(vals) :
                 vals[i] \in S /\ \A j \in 1..(i - 1) : vals[j] \notin S]
    ELSE None

\* _coerce_for_field
_coerce_for_field(defn, raw) ==
    IF ~defn.null /\ defn.type = s_select
    THEN LET vals == _split_multi(raw)
             opts == OptionsSet(defn)
         IN IF defn.multi
            THEN LET exact == SelectSeq(vals, LAMBDA v : v \in opts)
                 IN Coerced(ListVal(IF exact = <<>> /\ vals # <<>>
                                    THEN PickLower(vals, opts, exact)
                                    ELSE exact))
            ELSE IF FirstIn(vals, opts) # None
                 THEN Coerced(StrVal(FirstIn(vals, opts)))
                 ELSE LET ci == SelectSeq(vals,
                                  LAMBDA v : LowerGet(opts, v) \notin {None, EmptyStr})
                      IN IF ci # <<>>
                         THEN Coerced(StrVal(LowerGet(opts, Head(ci))))
                         ELSE CoercedNone
    ELSE Coerced(StrVal(raw))

\* _collect_csv_extra_fields: canonical key -> stripped value, in column order
RECURSIVE CollectFrom(_, _, _, _)
CollectFrom(cols, row, known_canon, extras) ==
    IF cols = <<>> THEN extras
    ELSE LET ckey == canonicalize(Head(cols))
             val == Head(row)
             sval == Strip(ReplaceChar(StrOf(val), NBSP, " "))
         IN CollectFrom(Tail(cols), Tail(row), known_canon,
                IF ckey \in known_canon \/ val = NaN \/ sval = EmptyStr
                THEN extras
                ELSE DictSet(extras, ckey, sval))
\* known_canon: the canonical names of _KNOWN_POST_FIELDS and known_columns
KnownCanonMutant(known_columns) == {}
KnownCanon(known_columns) ==
    {canonicalize(x) : x \in KnownPostFields}
        \cup {canonicalize(x) : x \in known_columns}
_collect_csv_extra_fields(cols, row, known_columns) ==
    CollectFrom(cols, row, KnownCanon(known_columns), <<>>)

\* defs_by_canon: canonical key -> original key of the record, first wins
DefsByCanon(ef) ==
    FirstWins([i \in 1..Len(ef) |-> <<canonicalize(ef[i][1]), ef[i][1]>>], <<>>)

\* the key under which a matched CSV value is written
WriteKeyMutant(ckey, real_key) == ckey
WriteKey(ckey, real_key) == real_key

\* "if coerced is None: continue"
SkipFieldMutant(coerced) == FALSE
SkipField(coerced) == coerced.none

\* the slot after the write: a slot that is not a dict is replaced by
\* {"value": coerced}, a dict gets its "value" overwritten in place
WriteSlotMutant(defn, val) == Defn(None, <<>>, FALSE, val)
WriteSlot(defn, val) ==
    IF defn.null THEN Defn(None, <<>>, FALSE, val) ELSE [defn EXCEPT !.value = val]

\* the loop over csv_extras: st = [ef |-> extra_fields, changed |-> keys changed]
RECURSIVE ApplyExtras(_, _, _)
ApplyExtras(extras, dbc, st) ==
    IF extras = <<>> THEN st
    ELSE LET ckey == Head(extras)[1]
             raw_val == Head(extras)[2]
         IN IF ~DictHas(dbc, ckey) THEN ApplyExtras(Tail(extras), dbc, st)
            ELSE LET real_key == DictGet(dbc, ckey)
                     defn == DictGet(st.ef, real_key)
                     coerced == _coerce_for_field(defn, raw_val)
                     slot == WriteSlot(defn, coerced.val)
                 IN IF SkipField(coerced) THEN ApplyExtras(Tail(extras), dbc, st)
                    ELSE ApplyExtras(Tail(extras), dbc,
                            [ef |-> DictSet(st.ef, WriteKey(ckey, real_key), slot),
                             changed |-> st.changed \cup {real_key}])

\* "if not changed: return" (no PATCH)
NoChangeMutant(changed) == FALSE
NoChange(changed) == changed = {}

\* post_extra_fields_from_row: the calls it issues and the error it raises
post_extra_fields_from_row(r, rid, cols, row, known_columns, rec, presp) ==
    LET metadata == ParsedMetadata(rec)
        st == ApplyExtras(_collect_csv_extra_fields(cols, row, known_columns),
                          DefsByCanon(metadata.extra_fields),
                          [ef |-> metadata.extra_fields, changed |-> {}])
        sent == [metadata EXCEPT !.extra_fields = st.ef]
        get == Fetched(HttpCall(r, "GET", rid, "", EmptyMap, rec.fetched), rec)
        patch == Answered(HttpCall(r, "PATCH", rid, "",
                                   ("metadata" :> JsonDumps(sent)), presp.ok), presp)
    IN IF NoChange(st.changed)
       THEN [calls |-> <<get>>, err |-> NoErr]
       ELSE [calls |-> <<get, patch>>,
             err |-> IF presp.ok THEN NoErr
                     ELSE Raise("RuntimeError", presp.status, presp.text)]

\* ---- files ----

\* the file system the importer runs on: one directory p_dir holding NumFiles
\* files (named 1..NumFiles) and one regular file p_file; nothing else exists
NumFiles == 3
p_dir == <<"/","d">>
p_missing == <<"/","x">>
p_file == <<"/","f",".","t","x","t">>
PathExists(path) == path \in {p_dir, p_file}
IsDir(path) == path = p_dir
FilesIn(path) == IF IsDir(path) THEN [i \in 1..NumFiles |-> i] ELSE <<>>

\* the importer is constructed without files_base_dir
files_base_dir == None

\* _find_path_col: the first column whose canonical name is an alias
PathAliases ==
    { <<"f","i","l","e","s","_","p","a","t","h">>,
      <<"f","i","l","e","_","p","a","t","h">>,
      <<"a","t","t","a","c","h","m","e","n","t","s","_","p","a","t","h">>,
      <<"a","t","t","a","c","h","m","e","n","t","s">>,
      <<"F","o","l","d","e","r"," ","w","i","t","h"," ","m","a","p"," ","a","n","d"," ",
        "s","e","q","u","e","n","c","i","n","g"," ","r","e","s","u","l","t","s">>,
      <<"F","o","l","d","e","r"," ","w","i","t","h"," ",
        "a","t","t","a","c","h","m","e","n","t","s">> }
_find_path_col(cols) ==
    LET canon_aliases == {canonicalize(a) : a \in PathAliases}
        hits == {i \in 1..Len(cols) : canonicalize(cols[i]) \in canon_aliases}
    IN IF hits = {} THEN None
       ELSE cols[CHOOSE i \in hits : \A j \in hits : i <= j]

\* os.path.basename
Basename(s) == LET parts == Split(s, "/") IN parts[Len(parts)]

\* _resolve_folder: None, or the path the cell names
_resolve_folder(value) ==
    IF value = None \/ value = NaN THEN None
    ELSE LET sv == Strip(ReplaceChar(value, NBSP, " "))
             looks_like_path ==
                 \/ HasChar(sv, "/") \/ HasChar(sv, "\\")
                 \/ HasChar(Basename(sv), ".")
                 \/ files_base_dir # None
         IN IF sv = EmptyStr \/ ~looks_like_path THEN None ELSE sv

\* the batches files[i : i + chunk_size]
NumBatches(n, chunk_size) == (n + chunk_size - 1) \div chunk_size
Batch(files, b, chunk_size) ==
    SubSeq(files, (b - 1) * chunk_size + 1, Min(b * chunk_size, Len(files)))

UploadData(field, fs) == ("field" :> field) @@ ("files" :> fs)

\* the per-file path for one file; outcome o:
\*   "ok1"  the files[] POST is accepted
\*   "ok2"  the files[] POST answers non-2xx, the file POST is accepted
\*   "fail" both answer non-2xx      "exc1" the files[] POST raises
\*   "exc2" the files[] POST answers non-2xx, the file POST raises
FileCalls(r, rid, f, o) ==
    LET first(ok) == HttpCall(r, "POST", rid, "uploads", UploadData("files[]", <<f>>), ok)
        second(ok) == HttpCall(r, "POST", rid, "uploads", UploadData("file", <<f>>), ok)
    IN CASE o = "ok1" -> <<first(TRUE)>>
         [] o = "ok2" -> <<first(FALSE), second(TRUE)>>
         [] o = "fail" -> <<first(FALSE), second(FALSE)>>
         [] o = "exc1" -> <<HttpExc(r, "POST", rid, "uploads", UploadData("files[]", <<f>>))>>
         [] o = "exc2" -> <<first(FALSE),
                            HttpExc(r, "POST", rid, "uploads", UploadData("file", <<f>>))>>

\* a file is recorded in errors unless one of its two POSTs was accepted
FileFailedMutant(o) == o # "ok1"
FileFailed(o) == o \notin {"ok1", "ok2"}

\* "for fp in files": the per-file path goes over the whole file list, the
\* files of accepted batches included (b = the batch that failed)
RetryFilesMutant(files, b, chunk_size) ==
    IF chunk_size > 1 THEN SubSeq(files, (b - 1) * chunk_size + 1, Len(files))
    ELSE files
RetryFiles(files, b, chunk_size) == files

\* attach_files: ao = [batch |-> outcome of each batch request,
\*                     file |-> outcome of each file on the per-file path]
attach_files(r, rid, folder, chunk_size, ao) ==
    LET files == FilesIn(folder)
        n == Len(files)
        nb == NumBatches(n, chunk_size)
        bad == {b \in 1..nb : ~ao.batch[b]}
        last == IF bad = {} THEN nb ELSE CHOOSE b \in bad : \A c \in bad : b <= c
        batch_calls ==
            IF chunk_size > 1
            THEN [b \in 1..last |->
                    HttpCall(r, "POST", rid, "uploads",
                             UploadData("files[]", Batch(files, b, chunk_size)),
                             ao.batch[b])]
            ELSE <<>>
        retried == RetryFiles(files, last, chunk_size)
        file_calls == Flatten([i \in 1..Len(retried) |->
                                 FileCalls(r, rid, retried[i], ao.file[retried[i]])])
        errors == SelectSeq(retried, LAMBDA f : FileFailed(ao.file[f]))
    IN IF ~IsDigit(rid)
       THEN [calls |-> <<>>, err |-> Raise("ValueError", 0, rid)]
       ELSE IF n = 0 THEN [calls |-> <<>>, err |-> NoErr]
       ELSE IF chunk_size > 1 /\ bad = {}
       THEN [calls |-> batch_calls, err |-> NoErr]
       ELSE [calls |-> batch_calls \o file_calls,
             err |-> IF errors = <<>> THEN NoErr
                     ELSE [Raise("RuntimeError", 0, EmptyStr) EXCEPT !.files = errors]]

\* ---- creation ----

\* _extract_known_post_fields: the template argument is not read
_extract_known_post_fields(cols, row, template_arg, self_template) ==
    LET title == get_title(cols, row)
        tags == get_tags(cols, row)
        body_col == FindColLike(cols, s_body)
        body_val == IF body_col = None THEN NaN ELSE Cell(cols, row, body_col)
    IN (IF title # None THEN ("title" :> title) ELSE EmptyMap)
       @@ (IF tags # <<>> THEN ("tags" :> tags) ELSE EmptyMap)
       @@ ("template" :> self_template)
       @@ (IF body_val # NaN /\ Strip(body_val) # EmptyStr
           THEN ("body" :> body_val) ELSE EmptyMap)

\* the id the calls that follow the POST are addressed to
TargetIdMutant(resource_id) == <<"1">>
TargetId(resource_id) == resource_id

\* the error create_new raises for a non-2xx POST
CreateErrorMutant(post) == Raise("RuntimeError", 0, EmptyStr)
CreateError(post) == Raise("RuntimeError", post.status, post.text)

\* create_new; o = [post, attach, rec, patch] are the endpoint's answers.
\* Result: the calls issued, the error raised (NoErr: returned id), and
\* whether _new_resources_counter was incremented.
ResCreateNew(r, cols, row, template_arg, self_template, o) ==
    LET payload == _extract_known_post_fields(cols, row, template_arg, self_template)
        post == Answered(HttpCall(r, "POST", None, "", payload, o.post.ok), o.post)
        resource_id == get_elab_id(o.post.location)
        rid == TargetId(resource_id)
        path_col == _find_path_col(cols)
        folder_path == IF path_col = None THEN None
                       ELSE _resolve_folder(Cell(cols, row, path_col))
        att == IF folder_path # None /\ IsDir(folder_path)
               THEN attach_files(r, rid, folder_path, 10, o.attach)
               ELSE [calls |-> <<>>, err |-> NoErr]
        known == {canonicalize(x) : x \in KnownPostFields}
                 \cup (IF path_col = None THEN {} ELSE {canonicalize(path_col)})
        extra == post_extra_fields_from_row(r, rid, cols, row, known, o.rec, o.patch)
    IN IF ~o.post.ok
       THEN [calls |-> <<post>>, err |-> CreateError(o.post), id |-> None, counted |-> FALSE]
       ELSE IF resource_id = None
       THEN [calls |-> <<post>>, err |-> Raise("RuntimeError", 0, LastSegment(o.post.location)),
             id |-> None, counted |-> FALSE]
       ELSE IF att.err # NoErr
       THEN [calls |-> <<post>> \o att.calls, err |-> att.err, id |-> None,
             counted |-> FALSE]
       ELSE IF extra.err # NoErr
       THEN [calls |-> <<post>> \o att.calls \o extra.calls, err |-> extra.err,
             id |-> None, counted |-> FALSE]
       ELSE [calls |-> <<post>> \o att.calls \o extra.calls, err |-> NoErr,
             id |-> resource_id, counted |-> TRUE]

\* ---- patch existing ----

\* the loop "for k in list(keys): lk = k.lower(); if lk != k: d[lk] = d.pop(k)"
DictPop(d, k) == SelectSeq(d, LAMBDA kv : kv[1] # k)
RECURSIVE LowerKeys(_, _)
LowerKeys(keys, ef) ==
    IF keys = <<>> THEN ef
    ELSE LET k == Head(keys)
             lk == Lower(k)
         IN LowerKeys(Tail(keys),
                      IF lk # k THEN DictSet(DictPop(ef, k), lk, DictGet(ef, k)) ELSE ef)

\* the payload of ResourcesImporter.patch_existing
ResPatchPayload(title, category, body, tags, metadata) ==
    ("title" :> title) @@ ("tags" :> tags) @@ ("category" :> category)
    @@ ("body" :> body) @@ ("metadata" :> JsonDumps(metadata))

\* ResourcesImporter.patch_existing(experiment_id, title, category, body, tags)
ResPatchExisting(r, rid, title, category, body, tags, rec, presp) ==
    LET metadata == ParsedMetadata(rec)
        sent == [metadata EXCEPT
                    !.extra_fields = LowerKeys(DictKeys(metadata.extra_fields),
                                               metadata.extra_fields)]
        get == Fetched(HttpCall(r, "GET", rid, "", EmptyMap, rec.fetched), rec)
        patch == Answered(HttpCall(r, "PATCH", rid, "",
                              ResPatchPayload(title, category, body, tags, sent),
                              presp.ok), presp)
    IN [calls |-> <<get, patch>>,
        err |-> IF presp.ok THEN NoErr
                ELSE Raise("HTTPError", presp.status, presp.text)]

\* ------------------------------------------------------------------------
\* ExperimentsImporter (src/services/importers/experiments_importer.py) and the
\* BaseImporter methods it drives

\* normalize_id
NullTokensMutant == {EmptyStr, <<"n","a","n">>, <<"n","u","l","l">>}
NullTokens == {EmptyStr, <<"n","a","n">>, <<"n","o","n","e">>, <<"n","u","l","l">>}
IntegerFloat(v) ==
    LET parts == Split(Tail(v), ".")
    IN Len(parts) = 2 /\ \A i \in 1..Len(parts[2]) : parts[2][i] = "0"
normalize_id(value) ==
    IF value = None \/ value = NaN THEN None
    ELSE LET sv == IF IsFloat(value) /\ IntegerFloat(value)
                   THEN Strip(Split(Tail(value), ".")[1])
                   ELSE Strip(StrOf(value))
         IN IF Lower(sv) \in NullTokens THEN None ELSE sv

\* resolve_category_col: the first column whose canonical name holds "categoryid"
resolve_category_col(cols) ==
    LET hits == {i \in 1..Len(cols) : Contains(s_categoryid, canonicalize(cols[i]))}
    IN IF hits = {} THEN None
       ELSE cols[CHOOSE i \in hits : \A j \in hits : i <= j]

\* get_category_id: [cid, err]; a non-numeric id raises ValueError
get_category_id(cols, row) ==
    LET col == resolve_category_col(cols)
        cid == IF col = None THEN None ELSE normalize_id(Cell(cols, row, col))
    IN IF cid = None THEN [cid |-> None, err |-> NoErr]
       ELSE IF IsDigit(cid) THEN [cid |-> cid, err |-> NoErr]
       ELSE [cid |-> None, err |-> Raise("ValueError", 0, cid)]

\* _get_body
_get_body(cols, row) ==
    LET body_col == FindColLike(cols, s_body)
        body_val == IF body_col = None THEN NaN ELSE Cell(cols, row, body_col)
    IN IF body_val = NaN \/ Strip(StrOf(body_val)) = EmptyStr THEN None
       ELSE Strip(StrOf(body_val))

\* _get_template
_get_template(cols, row) ==
    LET template_col == FindColLike(cols, s_template)
    IN IF template_col = None THEN None
       ELSE normalize_id(Cell(cols, row, template_col))

\* str(int(s)) for a decimal numeral s, None when int(s) raises
RECURSIVE DropZeros(_)
DropZeros(s) == IF Len(s) > 1 /\ Head(s) = "0" THEN DropZeros(Tail(s)) ELSE s
IntStr(s) ==
    LET t == Strip(s)
    IN IF IsDigit(t) THEN DropZeros(t)
       ELSE IF Len(t) > 1 /\ Head(t) = "+" /\ IsDigit(Tail(t)) THEN DropZeros(Tail(t))
       ELSE IF Len(t) > 1 /\ Head(t) = "-" /\ IsDigit(Tail(t))
       THEN IF DropZeros(Tail(t)) = <<"0">> THEN <<"0">>
            ELSE <<"-">> \o DropZeros(Tail(t))
       ELSE None

\* ExperimentsImporter.create_new(title, tags, template)
ExpCreatePayload(title, tags, template) ==
    ("title" :> title) @@ ("tags" :> tags)
    @@ (IF template # None /\ Strip(template) # EmptyStr
        THEN ("template" :> Strip(template)) ELSE EmptyMap)

ExpCreateNew(r, title, tags, template, post) ==
    LET call == Answered(HttpCall(r, "POST", None, "",
                                  ExpCreatePayload(title, tags, template), post.ok),
                         post)
        experiment_id == get_elab_id(post.location)
    IN IF ~post.ok
       THEN [calls |-> <<call>>, err |-> CreateError(post), id |-> None]
       ELSE IF experiment_id = None
       THEN [calls |-> <<call>>, id |-> None,
             err |-> Raise("RuntimeError", 0, LastSegment(post.location))]
       ELSE [calls |-> <<call>>, err |-> NoErr, id |-> experiment_id]

\* fetch_extra_fields_mapping: canonical title -> field, from the list
\* metadata_decoded.extra_fields (a later field of the same canonical title
\* replaces the earlier one in place)
FieldTitle(f) == f.title
RECURSIVE MapFields(_, _)
MapFields(fields, mapping) ==
    IF fields = <<>> THEN mapping
    ELSE MapFields(Tail(fields),
                   IF FieldTitle(Head(fields)) \in {None, EmptyStr} THEN mapping
                   ELSE DictSet(mapping, canonicalize(FieldTitle(Head(fields))),
                                Head(fields)))
fetch_extra_fields_mapping(rec) ==
    IF rec.decoded.islist THEN MapFields(rec.decoded.fields, <<>>) ELSE <<>>

\* the known_columns patch_existing passes
ExpKnownColumns == {s_id, s_title, s_tags, s_category, s_body, s_date, s_template}

\* the loop over row.index of update_extra_fields_from_row
RECURSIVE UpdateFrom(_, _, _, _)
UpdateFrom(cols, row, known_columns, extra_map) ==
    IF cols = <<>> THEN extra_map
    ELSE LET canon_col == canonicalize(Head(cols))
             val_str == IF Head(row) = NaN THEN EmptyStr ELSE StrOf(Head(row))
         IN UpdateFrom(Tail(cols), Tail(row), known_columns,
                IF DictHas(extra_map, canon_col) /\ canon_col \notin known_columns
                THEN DictSet(extra_map, canon_col,
                             [DictGet(extra_map, canon_col) EXCEPT !.value = val_str])
                ELSE extra_map)


\* update_extra_fields_from_row: the PATCH error is caught and logged
update_extra_fields_from_row(r, elab_id, cols, row, known_columns, rec, presp) ==
    LET get == Fetched(HttpCall(r, "GET", elab_id, "", EmptyMap, rec.fetched), rec)
        extra_map == fetch_extra_fields_mapping(rec)
        updated == UpdateFrom(cols, row, known_columns, extra_map)
        patch_data == ("metadata" :>
                          [json |-> FALSE,
                           obj |-> [extra_fields |->
                                       [i \in 1..Len(updated) |-> updated[i][2]]]])
        patch == Answered(HttpCall(r, "PATCH", elab_id, "", patch_data, presp.ok),
                          presp)
    IN IF ~rec.fetched \/ extra_map = <<>>
       THEN [calls |-> <<get>>, err |-> NoErr]
       ELSE [calls |-> <<get, patch>>, err |-> NoErr]

\* the known-field payload of ExperimentsImporter.patch_existing
ExpPatchPayload(cols, row, category) ==
    LET title == _get_title(cols, row)
        tags == get_tags(cols, row)
        body == _get_body(cols, row)
    IN (IF title # None THEN ("title" :> title) ELSE EmptyMap)
       @@ (IF tags # <<>> THEN ("tags" :> tags) ELSE EmptyMap)
       @@ (IF body # None THEN ("body" :> body) ELSE EmptyMap)
       @@ (IF category \notin {None, EmptyStr} THEN ("category" :> category)
           ELSE EmptyMap)

\* "if payload:" of patch_existing
SendsKnownPatchMutant(payload) == TRUE
SendsKnownPatch(payload) == payload # EmptyMap

\* ExperimentsImporter.patch_existing(experiment_id, row, category);
\* o = [kpatch, rec, patch]
ExpPatchExisting(r, experiment_id, cols, row, category, o) ==
    LET payload == ExpPatchPayload(cols, row, category)
        kpatch == Answered(HttpCall(r, "PATCH", experiment_id, "", payload,
                                    o.kpatch.ok), o.kpatch)
        extra == update_extra_fields_from_row(r, experiment_id, cols, row,
                                              ExpKnownColumns, o.rec, o.patch)
    IN IF SendsKnownPatch(payload)
       THEN IF o.kpatch.ok
            THEN [calls |-> <<kpatch>> \o extra.calls, err |-> extra.err]
            ELSE [calls |-> <<kpatch>>,
                  err |-> Raise("HTTPError", o.kpatch.status, o.kpatch.text)]
       ELSE [calls |-> extra.calls, err |-> extra.err]

\* ------------------------------------------------------------------------
\* The endpoint's answers and the CSV tables the importers are run on

DigitChars == <<"0","1","2","3","4","5","6","7","8","9">>

\* the id the server gives the record created for row r, and the Location
\* header announcing it (with a trailing slash for even rows)
IdFor(r) == <<"4", DigitChars[r + 1]>>
LocationFor(r) ==
    <<"/","i","/">> \o IdFor(r) \o (IF r % 2 = 0 THEN <<"/">> ELSE <<>>)

Answer(ok, status, text, location) ==
    [ok |-> ok, status |-> status, text |-> text, location |-> location]
PostAnswers(r) ==
    { Answer(TRUE, 201, EmptyStr, LocationFor(r)),
      Answer(TRUE, 201, EmptyStr, None),
      Answer(TRUE, 201, EmptyStr, <<"/","i","/","a","b">>),
      Answer(FALSE, 400, <<"b","a","d">>, None),
      Answer(FALSE, 500, <<"e","r","r">>, None) }
PatchAnswers ==
    { Answer(TRUE, 200, EmptyStr, None),
      Answer(FALSE, 500, <<"e","r","r">>, None) }

\* what a failing upload request of attach_files can look like: every batch
\* and file accepted; the batch refused and then every file accepted at the
\* first or at the second attempt; one file refused twice; one POST raising
AttachAll(b, o) ==
    [batch |-> [i \in 1..NumBatches(NumFiles, 10) |-> b],
     file |-> [i \in 1..NumFiles |-> o]]
AttachOutcomes ==
    {AttachAll(TRUE, "ok1"), AttachAll(FALSE, "ok1"), AttachAll(FALSE, "ok2")}
    \cup {[AttachAll(FALSE, "ok1") EXCEPT !.file[k] = "fail"] : k \in 1..NumFiles}
    \cup {[AttachAll(FALSE, "ok1") EXCEPT !.file[1] = "exc1"]}

s_Color == <<"C","o","l","o","r">>
s_Red == <<"R","e","d">>
s_Blue == <<"B","l","u","e">>
s_red == <<"r","e","d">>
s_green == <<"g","r","e","e","n">>
s_Notes == <<"N","o","t","e","s">>
s_color == <<"c","o","l","o","r">>
s_Title == <<"T","i","t","l","e">>
s_attachments == <<"a","t","t","a","c","h","m","e","n","t","s">>
s_Size == <<"S","i","z","e">>

\* records the resources endpoint may return on GET
ColorSelect(multi) == Defn(s_select, <<s_Red, s_Blue>>, multi, NoVal)
ResRecords ==
    { NoRec,
      Record(TRUE, "obj", << <<s_Notes, Defn(s_text, <<>>, FALSE, StrVal(<<"n">>))>>,
                             <<s_Color, ColorSelect(FALSE)>> >>, <<"k">>, NoDecoded),
      Record(TRUE, "str", << <<s_Notes, Defn(s_text, <<>>, FALSE, StrVal(<<"n">>))>>,
                             <<s_Color, ColorSelect(TRUE)>> >>, <<"k">>, NoDecoded),
      Record(TRUE, "badstr", << <<s_Color, ColorSelect(FALSE)>> >>, EmptyStr,
             NoDecoded),
      Record(TRUE, "obj", << <<s_Title, Defn(s_text, <<>>, FALSE, StrVal(<<"t","0">>))>>,
                             <<s_attachments, Defn(s_text, <<>>, FALSE, StrVal(<<"f","0">>))>>,
                             <<s_Color, ColorSelect(FALSE)>> >>, EmptyStr, NoDecoded),
      Record(TRUE, "str", << <<s_Color, ColorSelect(FALSE)>>,
                             <<s_color, ColorSelect(FALSE)>> >>, EmptyStr, NoDecoded) }

\* records the experiments endpoint may return on GET
Field(title, value) == [title |-> title, value |-> value]
ExpRecords ==
    { NoRec,
      Record(TRUE, "str", <<>>, EmptyStr,
             [islist |-> TRUE, fields |-> <<Field(s_Color, EmptyStr)>>]),
      Record(TRUE, "str", <<>>, EmptyStr,
             [islist |-> TRUE, fields |-> <<Field(s_Size, <<"1">>)>>]),
      Record(TRUE, "str", <<>>, EmptyStr,
             [islist |-> TRUE, fields |-> <<Field(s_Title, <<"t","0">>),
                                            Field(s_Color, EmptyStr)>>]),
      Record(TRUE, "str", <<>>, EmptyStr,
             [islist |-> TRUE, fields |-> <<Field(s_Color, <<"a">>),
                                            Field(s_color, <<"b">>)>>]),
      Record(TRUE, "str", <<>>, EmptyStr, NoDecoded) }

\* the resources CSV
ResColumns == << <<"T","i","t","l","e">>, <<"T","a","g","s">>, s_Color, s_Notes,
                 <<"A","t","t","a","c","h","m","e","n","t","s">> >>
ResRows ==
    { << <<"S","a","m","p","l","e"," ","A">>, <<"x","|","y">>, s_red, NaN, NaN >>,
      << NaN, NaN, s_green, NaN, p_dir >>,
      << <<"B">>, <<"x">>, NaN, NaN, p_missing >>,
      << <<"B">>, NaN, s_Blue, NaN, p_dir >>,
      << <<"B">>, NaN, s_green, <<"m">>, p_file >> }

\* the experiments CSVs: one with the known columns, one without
ExpColumnsFull == << s_id, s_title, <<"C","a","t","e","g","o","r","y"," ","I","D">>,
                     s_Color >>
ExpRowsFull ==
    { << NaN, <<"t">>, NaN, s_red >>,
      << <<FLOAT, "7", ".", "0">>, <<"t","2">>, <<"4","5">>, NaN >>,
      << <<"x">>, <<"t">>, NaN, NaN >>,
      << <<"8">>, <<"t">>, <<"a","b","c">>, s_Blue >>,
      << <<FLOAT, "7", ".", "5">>, <<"t">>, NaN, NaN >> }
ExpColumnsBare == << s_id, s_Color >>
ExpRowsBare == { << <<"7">>, s_red >>, << NaN, s_Blue >> }

\* the constructor's default_template and default_category
default_template == None
default_category == None

\* all tables of 1..MaxRows rows over a row set
Tables(rows) == UNION {[1..n -> rows] : n \in 1..MaxRows}

\* ------------------------------------------------------------------------
\* The importers as state machines

PfIdle ==
    /\ pf_pc = "idle" /\ page_size = 1 /\ max_retries = 0 /\ min_limit = 1
    /\ offset = 0 /\ attempt = 0 /\ current_limit = 1
    /\ calls = <<>> /\ resps = <<>> /\ yielded = <<>>
    /\ coll_size = 0 /\ skipped = FALSE

ImpIdle ==
    /\ imp_kind = "none" /\ columns = <<>> /\ df = <<>>
    /\ templates = [self |-> None, arg |-> EmptyStr]
    /\ row_i = 0 /\ run = "idle" /\ err = NoErr /\ log = <<>> /\ ids = <<>>
    /\ new_resources_counter = 0 /\ invoked = <<>>

FnIdle ==
    /\ fn = "none" /\ fn_pc = "idle" /\ fn_args = <<>> /\ fn_ret = <<>>
    /\ ex_pc = "idle" /\ ex_start = 0 /\ ex_page_size = 1 /\ ex_offset = 0
    /\ ex_rows = <<>> /\ ex_table = <<>> /\ ex_events = <<>>

ImpStart ==
    /\ FnIdle
    /\ row_i = 0 /\ run = "running" /\ err = NoErr /\ log = <<>> /\ ids = <<>>
    /\ new_resources_counter = 0 /\ invoked = <<>>

\* the constructor's template and the template argument of create_all_from_csv
ResTemplates ==
    { [self |-> None, arg |-> EmptyStr], [self |-> <<"7">>, arg |-> <<"9">>] }

\* ResourcesImporter(csv_path, template=...) constructed
ResInit ==
    /\ PfIdle
    /\ imp_kind = "resources"
    /\ columns = ResColumns
    /\ df \in Tables(ResRows)
    /\ templates \in ResTemplates
    /\ ImpStart

\* the rows a CSV with the given columns may hold
ExpRowsOf(cols) == IF cols = ExpColumnsFull THEN ExpRowsFull ELSE ExpRowsBare

\* ExperimentsImporter(csv_path) constructed
ExpInit ==
    /\ PfIdle
    /\ imp_kind = "experiments"
    /\ columns \in {ExpColumnsFull, ExpColumnsBare}
    /\ df \in Tables(ExpRowsOf(columns))
    /\ templates = [self |-> default_template, arg |-> EmptyStr]
    /\ ImpStart

ImpInit == ResInit \/ ExpInit

ImpFrame == UNCHANGED <<pfVars, fnVars, exVars, imp_kind, columns, df, templates>>

\* how a bulk loop goes on after the handler of one row: an exception leaves
\* the loop (neither loop has a try/except around the row)
LoopAfter(e) ==
    /\ err' = e
    /\ run' = IF e # NoErr THEN "raised"
              ELSE IF row_i + 1 = Len(df) THEN "done" ELSE "running"

\* the answers to the upload requests of a row: only a row naming a folder
\* with files in it issues any
UploadAnswers(row) ==
    IF \E i \in 1..Len(row) : IsDir(row[i]) /\ FilesIn(row[i]) # <<>>
    THEN AttachOutcomes ELSE {AttachAll(TRUE, "ok1")}

\* what create_new(row, template) can do for the r-th row of the CSV, over the
\* answers of the endpoint
ResCreateOutcomes ==
    [r \in 1..MaxRows |-> [row \in ResRows |-> [t \in ResTemplates |->
        { ResCreateNew(r, ResColumns, row, t.arg, t.self,
                       [post |-> post, attach |-> ao, rec |-> rec, patch |-> patch]) :
              post \in PostAnswers(r), ao \in UploadAnswers(row),
              rec \in ResRecords, patch \in PatchAnswers }]]]

\* create_all_from_csv: one iteration, ids.append(self.create_new(row, template))
ResCreateRow ==
    /\ imp_kind = "resources" /\ run = "running" /\ row_i < Len(df)
    /\ \E res \in ResCreateOutcomes[row_i + 1][df[row_i + 1]][templates] :
          /\ log' = log \o res.calls
          /\ ids' = IF res.err = NoErr THEN Append(ids, res.id) ELSE ids
          /\ new_resources_counter' =
                 new_resources_counter + (IF res.counted THEN 1 ELSE 0)
          /\ LoopAfter(res.err)
    /\ row_i' = row_i + 1
    /\ UNCHANGED invoked
    /\ ImpFrame

\* a direct call ResourcesImporter.patch_existing(id, title, category, body, tags)
ResPatchArgs ==
    [title : {EmptyStr, <<"T">>}, category : {EmptyStr, <<"2">>},
     body : {EmptyStr, <<"b">>}, tags : {<<>>, << <<"x">> >>}]
ResPatch ==
    /\ imp_kind = "resources" /\ run = "running" /\ row_i = 0 /\ log = <<>>
    /\ \E a \in ResPatchArgs, rec \in ResRecords, patch \in PatchAnswers :
          LET res == ResPatchExisting(0, <<"5">>, a.title, a.category, a.body,
                                      a.tags, rec, patch)
          IN /\ log' = res.calls
             /\ err' = res.err
             /\ run' = IF res.err = NoErr THEN "patched" ELSE "raised"
             /\ invoked' = Append(invoked, [row |-> 0, id |-> <<"5">>, args |-> a])
    /\ UNCHANGED <<row_i, ids, new_resources_counter>>
    /\ ImpFrame

\* a direct call ResourcesImporter.attach_files(resource_id, folder, chunk_size),
\* over every way the endpoint can answer the upload requests
ResAttachArgs ==
    [chunk_size : {1, 2, 10}, folder : {p_dir, p_missing}, id : {<<"5">>, <<"a">>}]
UploadOutcomes(chunk_size) ==
    [batch : [1..NumBatches(NumFiles, chunk_size) -> BOOLEAN],
     file : [1..NumFiles -> {"ok1", "ok2", "fail", "exc1", "exc2"}]]
ResAttachOutcomes ==
    [a \in ResAttachArgs |->
        { attach_files(0, a.id, a.folder, a.chunk_size, ao) :
              ao \in UploadOutcomes(a.chunk_size) }]
ResAttach ==
    /\ imp_kind = "resources" /\ run = "running" /\ row_i = 0 /\ log = <<>>
    /\ \E a \in ResAttachArgs :
          \E res \in ResAttachOutcomes[a] :
             /\ log' = res.calls
             /\ err' = res.err
             /\ run' = IF res.err = NoErr THEN "attached" ELSE "raised"
             /\ invoked' = Append(invoked, [row |-> 0, id |-> a.id, args |-> a])
    /\ UNCHANGED <<row_i, ids, new_resources_counter>>
    /\ ImpFrame

\* "if (not pd.notna(raw_id)) or (str(raw_id).strip() == "")"
NeedsCreateMutant(raw_id) == TRUE
NeedsCreate(raw_id) == raw_id = NaN \/ Strip(StrOf(raw_id)) = EmptyStr

\* experiment_import: one iteration of the loop over the rows
ExpRowResult(r, cols, row, o) ==
    LET raw_id == Cell(cols, row, IF FindColLike(cols, s_id) = None THEN s_id
                                  ELSE FindColLike(cols, s_id))
        title == _get_title(cols, row)
        tags == get_tags(cols, row)
        tpl == IF _get_template(cols, row) # None THEN _get_template(cols, row)
               ELSE default_template
        cat == get_category_id(cols, row)
        category == IF cat.cid # None THEN cat.cid ELSE default_category
        created == ExpCreateNew(r, title, tags, tpl, o.post)
        parsed == IntStr(Split(Strip(StrOf(raw_id)), ".")[1])
        target == IF NeedsCreate(raw_id)
                  THEN created.id ELSE parsed
        patched == ExpPatchExisting(r, target, cols, row, category, o)
        call == [row |-> r, id |-> target,
                 args |-> ExpPatchPayload(cols, row, category)]
    IN IF cat.err # NoErr
       THEN [calls |-> <<>>, err |-> cat.err, invoked |-> <<>>]
       ELSE IF NeedsCreate(raw_id)
       THEN IF created.err # NoErr
            THEN [calls |-> created.calls, err |-> created.err, invoked |-> <<>>]
            ELSE [calls |-> created.calls \o patched.calls, err |-> patched.err,
                  invoked |-> <<call>>]
       ELSE IF parsed = None
       THEN [calls |-> <<>>, err |-> Raise("ValueError", 0, StrOf(raw_id)),
             invoked |-> <<>>]
       ELSE [calls |-> patched.calls, err |-> patched.err, invoked |-> <<call>>]

\* what one iteration can do for the r-th row of a CSV, over the answers of the
\* endpoint
ExpRowOutcomes ==
    [r \in 1..MaxRows |-> [cols \in {ExpColumnsFull, ExpColumnsBare} |->
        [row \in ExpRowsOf(cols) |->
            { ExpRowResult(r, cols, row,
                           [post |-> post, kpatch |-> kpatch, rec |-> rec,
                            patch |-> patch]) :
                  post \in PostAnswers(r), kpatch \in PatchAnswers,
                  rec \in ExpRecords, patch \in PatchAnswers }]]]

ExpImportRow ==
    /\ imp_kind = "experiments" /\ run = "running" /\ row_i < Len(df)
    /\ \E res \in ExpRowOutcomes[row_i + 1][columns][df[row_i + 1]] :
          /\ log' = log \o res.calls
          /\ invoked' = invoked \o res.invoked
          /\ LoopAfter(res.err)
    /\ row_i' = row_i + 1
    /\ UNCHANGED <<ids, new_resources_counter>>
    /\ ImpFrame

ImpNext == ResCreateRow \/ ResPatch \/ ResAttach \/ ExpImportRow

SpecImport == ImpInit /\ [][ImpNext]_vars

\* paged_fetch called on its own: no importer is constructed
PagedInit == PfInit /\ ImpIdle /\ FnIdle

SpecPaged == PagedInit /\ [][PfNext]_vars

\* ------------------------------------------------------------------------
\* paged_fetch over a page source that honours limit and offset on a fixed
\* collection of coll_size items (items 1 .. coll_size, item off+1 first)

\* the number of items get_page(limit, off) returns
Served(limit, off) == Min(limit, Max(0, coll_size - off))

SrcInit ==
    /\ pf_pc = "get"
    /\ page_size \in 1..MaxPageSize
    /\ max_retries \in 0..MaxRetries
    /\ min_limit \in 1..MaxMinLimit
    /\ coll_size \in 0..MaxItems
    /\ offset = 0
    /\ attempt = 0
    /\ current_limit = page_size
    /\ calls = <<>>
    /\ resps = <<>>
    /\ yielded = <<>>
    /\ skipped = FALSE
    /\ ImpIdle
    /\ FnIdle

SrcFrame ==
    UNCHANGED <<page_size, max_retries, min_limit, coll_size, calls, resps,
                impVars, fnVars, exVars>>

\* every offset at or past the end of the collection is served the same empty
\* page: the model counts the offsets past the end modulo FoldSpan, a span
\* longer than any limit, so that each new window is a new state
FoldSpan == Max(page_size, min_limit) + 1
Folded(off) ==
    IF off <= coll_size THEN off ELSE coll_size + ((off - coll_size) % FoldSpan)

\* outer loop: next window starts with attempt = 0, current_limit = page_size
SrcNextWindow ==
    /\ offset' = Folded(AdvancedOffset)
    /\ attempt' = 0
    /\ current_limit' = page_size
    /\ pf_pc' = "get"

\* the part of the outer loop body after the inner loop, for a page of n items
SrcAfterPage(n) ==
    IF n = 0
    THEN /\ yielded' = yielded
         /\ IF SkipWindow THEN SrcNextWindow ELSE PfStop
    ELSE /\ yielded' = yielded \o PageItems(offset, n)
         /\ IF n < current_limit THEN PfStop ELSE SrcNextWindow

\* get_page(current_limit, offset) returns the items the collection has there
SrcPage ==
    /\ pf_pc = "get"
    /\ SrcAfterPage(Served(current_limit, offset))
    /\ skipped' = skipped
    /\ SrcFrame

\* get_page raises a timeout-class exception
SrcTimeout ==
    /\ pf_pc = "get"
    /\ IF attempt >= max_retries
       THEN /\ SrcAfterPage(0)
            /\ skipped' = TRUE
       ELSE /\ attempt' = attempt + 1
            /\ current_limit' = ReducedLimit(current_limit)
            /\ UNCHANGED <<offset, pf_pc, yielded, skipped>>
    /\ SrcFrame

SrcNext == SrcPage \/ SrcTimeout

SpecSource == SrcInit /\ [][SrcNext]_vars

\* the loop never pauses of its own: while it runs, its next GET is issued
SpecSourceFair == SpecSource /\ WF_vars(SrcNext)


\* ------------------------------------------------------------------------
\* The helper functions called on their own

\* _build_column_indexes: (lower_map, canon_map)
_build_column_indexes(cols) == [lower_map |-> LowerMap(cols), canon_map |-> CanonMap(cols)]

\* sep.join(tokens)
RECURSIVE Join(_, _)
Join(tokens, sep) ==
    IF tokens = <<>> THEN EmptyStr
    ELSE IF Len(tokens) = 1 THEN Head(tokens)
    ELSE Head(tokens) \o sep \o Join(Tail(tokens), sep)

\* the raw CSV values handed to _coerce_for_field: up to MaxTokens tokens
\* joined by one of the separators
MaxTokens == 3
s_BLUE == <<"B","L","U","E">>
CoerceTokens == {s_red, s_Red, s_BLUE, s_Blue, s_green}
CoerceSeps == { <<",", " ">>, <<";">> }
CoerceRaws ==
    {Join(ts, sep) : ts \in UNION {[1..n -> CoerceTokens] : n \in 1..MaxTokens},
                     sep \in CoerceSeps}
CoerceArgs == [defn : {ColorSelect(TRUE), ColorSelect(FALSE)}, raw : CoerceRaws]

\* the header sequences handed to _build_column_indexes
MaxHeaders == 3
s_CategoryID == <<"C","a","t","e","g","o","r","y"," ","I","D">>
s_category_id == <<"c","a","t","e","g","o","r","y","_","i","d">>
IndexHeaders ==
    { s_Color, <<"c","o","l","o","r">>, <<"C","o"," ","l","o","r">>,
      <<"c","o","-","l","o","r">>, <<"T","a","g","s">>,
      s_CategoryID, s_category_id }
IndexArgs == UNION {[1..n -> IndexHeaders] : n \in 1..MaxHeaders}

\* the header sequences and targets handed to _find_col_like
FindHeaders ==
    { s_id, <<"V","a","l","i","d">>, s_CategoryID, s_category_id,
      <<"T","a","g","s">> }
FindArgs ==
    [cols : UNION {[1..n -> FindHeaders] : n \in 1..MaxHeaders},
     target : {s_id, s_category_id}]

\* the tags cells handed to get_tags: every string of up to MaxTagLen
\* characters, and the two cells of the tests
MaxTagLen == 4
TagChars == {"a", "b", ";", ",", "|", " "}
TagCells ==
    UNION {[1..n -> TagChars] : n \in 1..MaxTagLen}
      \cup { <<"a",";"," ","b"," ","|"," ","c">>, <<"a",",","b",",","c">> }

\* the values handed to normalize_id: None, NaN, floats, and strings with up
\* to MaxPad blanks on either side
MaxPad == 1
Blanks(n) == [i \in 1..n |-> " "]
IdTexts ==
    { EmptyStr, <<"n","a","n">>, <<"N","a","N">>, <<"n","o","n","e">>,
      <<"N","o","n","e">>, <<"N","O","N","E">>, <<"n","u","l","l">>,
      <<"N","u","l","l">>, <<"5">>, <<"x">>, <<"n","a">>, <<"n","u","l","l","s">>,
      <<"4"," ","2">> }
IdValues ==
    { None, NaN, <<FLOAT,"5",".","0">>, <<FLOAT,"7",".","5">>,
      <<FLOAT,"1","2",".","0">> }
      \cup { Blanks(l) \o t \o Blanks(r) : l \in 0..MaxPad, r \in 0..MaxPad,
                                            t \in IdTexts }

\* the rows handed to post_extra_fields_from_row on its own: a CSV whose two
\* columns canonicalize to the same key
DupColumns == <<s_Color, s_color>>
DupArgs ==
    [row : [1..2 -> {NaN, s_red, s_Blue, s_green}], rec : ResRecords,
     patch : PatchAnswers]

FnInit ==
    /\ PfIdle /\ ImpIdle
    /\ ex_pc = "idle" /\ ex_start = 0 /\ ex_page_size = 1 /\ ex_offset = 0
    /\ ex_rows = <<>> /\ ex_table = <<>> /\ ex_events = <<>>
    /\ fn_pc = "called" /\ fn_ret = <<>>
    /\ \/ fn = "coerce" /\ fn_args \in CoerceArgs
       \/ fn = "index" /\ fn_args \in IndexArgs
       \/ fn = "find" /\ fn_args \in FindArgs
       \/ fn = "tags" /\ fn_args \in TagCells
       \/ fn = "normalize" /\ fn_args \in IdValues
       \/ fn = "post_extra" /\ fn_args \in DupArgs

FnFrame == UNCHANGED <<pfVars, impVars, exVars, fn, fn_args>>

\* _coerce_for_field(defn, raw) returns
CoerceReturn ==
    /\ fn = "coerce" /\ fn_pc = "called"
    /\ fn_ret' = _coerce_for_field(fn_args.defn, fn_args.raw)
    /\ fn_pc' = "returned"
    /\ FnFrame

\* _build_column_indexes(columns) returns
IndexReturn ==
    /\ fn = "index" /\ fn_pc = "called"
    /\ fn_ret' = _build_column_indexes(fn_args)
    /\ fn_pc' = "returned"
    /\ FnFrame

\* _find_col_like(target) returns, on an importer built over the headers cols
FindReturn ==
    /\ fn = "find" /\ fn_pc = "called"
    /\ fn_ret' = FindColLike(fn_args.cols, fn_args.target)
    /\ fn_pc' = "returned"
    /\ FnFrame

\* get_tags(row) returns, for a row whose Tags cell is the argument
TagsReturn ==
    /\ fn = "tags" /\ fn_pc = "called"
    /\ fn_ret' = get_tags(<< <<"T","a","g","s">> >>, <<fn_args>>)
    /\ fn_pc' = "returned"
    /\ FnFrame

\* normalize_id(value) returns
NormalizeReturn ==
    /\ fn = "normalize" /\ fn_pc = "called"
    /\ fn_ret' = normalize_id(fn_args)
    /\ fn_pc' = "returned"
    /\ FnFrame

\* post_extra_fields_from_row(resource_id, row) returns or raises
PostExtraReturn ==
    /\ fn = "post_extra" /\ fn_pc = "called"
    /\ fn_ret' = post_extra_fields_from_row(1, <<"5">>, DupColumns, fn_args.row,
                                             {}, fn_args.rec, fn_args.patch)
    /\ fn_pc' = "returned"
    /\ FnFrame

FnNext ==
    \/ CoerceReturn \/ IndexReturn \/ FindReturn \/ TagsReturn \/ NormalizeReturn
    \/ PostExtraReturn

SpecHelpers == FnInit /\ [][FnNext]_vars

\* ------------------------------------------------------------------------
\* ResourcesExporter.fetch_data (src/services/exporters/resources_exporter.py)

MaxStart == 1
MaxExPageSize == 2
MaxExPageLen == 3
MaxExCalls == 3

ExInit ==
    /\ PfIdle /\ ImpIdle
    /\ fn = "none" /\ fn_pc = "idle" /\ fn_args = <<>> /\ fn_ret = <<>>
    /\ ex_pc = "start"
    /\ ex_start \in 0..MaxStart
    /\ ex_page_size \in 1..MaxExPageSize
    /\ ex_offset = 0 /\ ex_rows = <<>> /\ ex_table = <<>> /\ ex_events = <<>>

ExFrame == UNCHANGED <<pfVars, impVars, fnVars, ex_start, ex_page_size>>

\* IDValidator("categories", self._category_id).validate(), then
\* rows = [], offset = start_offset; a ValidationError propagates
ExValidate ==
    /\ ex_pc = "start"
    /\ \E valid \in BOOLEAN :
          /\ ex_events' = Append(ex_events, [op |-> "validate", ok |-> valid,
                                             limit |-> 0, offset |-> 0, page |-> <<>>])
          /\ ex_pc' = IF valid THEN "get" ELSE "raised"
    /\ ex_offset' = ex_start
    /\ UNCHANGED <<ex_rows, ex_table>>
    /\ ExFrame

\* the records the server has handed out so far
Received == Len(ex_rows)

\* "offset += page_size"
ExNextOffsetMutant(off, size, n) == off + n
ExNextOffset(off, size, n) == off + size

\* one iteration of "while True": the GET, raise_for_status, rows.extend and
\* the test for a short page; the return of pd.json_normalize(rows), one row
\* per record, on a short page
ExGetPage ==
    /\ ex_pc = "get"
    /\ Len(ex_events) <= MaxExCalls
    /\ \E ok \in BOOLEAN, n \in 0..MaxExPageLen :
          LET page_rows == IF ok THEN [i \in 1..n |-> Received + i] ELSE <<>>
              rows == ex_rows \o page_rows
          IN /\ (~ok => n = 0)
             /\ ex_events' = Append(ex_events,
                                [op |-> "GET", ok |-> ok, limit |-> ex_page_size,
                                 offset |-> ex_offset, page |-> page_rows])
             /\ IF ~ok
                THEN ex_pc' = "raised" /\ UNCHANGED <<ex_rows, ex_offset, ex_table>>
                ELSE /\ ex_rows' = rows
                     /\ IF Len(page_rows) < ex_page_size
                        THEN /\ ex_pc' = "done" /\ ex_table' = rows
                             /\ UNCHANGED ex_offset
                        ELSE /\ ex_pc' = "get"
                             /\ ex_offset' = ExNextOffset(ex_offset, ex_page_size,
                                                          Len(page_rows))
                             /\ UNCHANGED ex_table
    /\ ExFrame

ExNext == ExValidate \/ ExGetPage

SpecExport == ExInit /\ [][ExNext]_vars

\* ========================================================================
\* Claims about the importers (checked under SpecImport)

\* the calls issued while row r was handled, in order
RowCalls(r) == SelectSeq(log, LAMBDA c : c.row = r)

IsCreatePost(c) == c.op = "POST" /\ c.sub = ""
IsMetadataPatch(c) == c.op = "PATCH" /\ "metadata" \in DOMAIN c.data
IsKnownPatch(c) == c.op = "PATCH" /\ "metadata" \notin DOMAIN c.data

\* a create POST, a PATCH or an upload of row r was refused or raised
HttpFailed(r) ==
    \E j \in 1..Len(RowCalls(r)) :
        RowCalls(r)[j].op \in {"POST", "PATCH"} /\ ~RowCalls(r)[j].ok

\* C1: in a bulk run, when the create POST, the known-field PATCH, the
\* extra-fields PATCH or the attachment step of row i fails with an HTTP error,
\* the run does not stop: the rows after i still get their calls.
C1_RunContinuesAfterRowFailure ==
    \A r \in 1..row_i :
        (HttpFailed(r) /\ r < Len(df)) => run # "raised"

\* C2: for ResourcesImporter.create_new on a row whose POST succeeds, exactly
\* one create POST is issued and it is the row's first call; the new id is the
\* one of that POST's Location header; every later call of the row targets
\* that id; the metadata PATCH comes last; with a select definition Color
\* (options Red, Blue) and the CSV value 'red' the PATCH sets
\* extra_fields.Color.value to 'Red'.
C2_CreateOrderAndTarget ==
    imp_kind = "resources" =>
    \A r \in 1..row_i :
        LET cs == RowCalls(r)
        IN (cs[1].ok /\ cs[1].resp.location # None) =>
           /\ IsCreatePost(cs[1])
           /\ \A j \in 2..Len(cs) :
                 /\ ~IsCreatePost(cs[j])
                 /\ cs[j].id = IdFor(r)
                 /\ cs[j].op = "PATCH" => j = Len(cs)
                 /\ (/\ IsMetadataPatch(cs[j])
                     /\ cs[j-1].resp.rec.mkind = "obj"
                     /\ Cell(columns, df[r], s_Color) = s_red)
                    => DictGet(cs[j].data["metadata"].obj.extra_fields,
                               s_Color).value = StrVal(s_Red)
           /\ r <= Len(ids) => ids[r] = IdFor(r)

C2_Witness ==
    /\ imp_kind = "resources" /\ row_i = 2 /\ Len(ids) = 2
    /\ Cell(columns, df[2], s_Color) = s_red
    /\ \E j \in 1..Len(log) :
          /\ log[j].row = 2 /\ IsMetadataPatch(log[j]) /\ log[j].ok
          /\ log[j-1].resp.rec.mkind = "obj"
    /\ \E j \in 1..Len(log) : log[j].row = 1 /\ log[j].sub = "uploads"

\* C3: if the create POST returns a non-2xx response, create_new raises an
\* error carrying the response's status code and body text, issues no upload,
\* GET or PATCH for that row, and leaves the new-resources counter unchanged.
C3_FailedCreateRaises ==
    \A r \in 1..row_i :
        LET cs == RowCalls(r)
        IN (cs # <<>> /\ IsCreatePost(cs[1]) /\ ~cs[1].ok) =>
           /\ Len(cs) = 1
           /\ run = "raised"
           /\ err.type = "RuntimeError"
           /\ err.status = cs[1].resp.status
           /\ err.text = cs[1].resp.text
           /\ new_resources_counter = Len(ids)
           /\ imp_kind = "resources" => new_resources_counter = r - 1

C3_Witness ==
    /\ imp_kind = "resources" /\ row_i = 2 /\ new_resources_counter = 1
    /\ run = "raised" /\ err.status = 400
    /\ IsCreatePost(log[Len(log)]) /\ ~log[Len(log)].ok

\* the CSV has a column whose canonical name is the canonical name of an
\* extra-field definition of the record the GET call c fetched
ColumnMatches(c) ==
    LET rec == c.resp.rec
        names == IF imp_kind = "resources"
                 THEN SeqToSet(DictKeys(ParsedMetadata(rec).extra_fields))
                 ELSE {rec.decoded.fields[i].title :
                          i \in 1..Len(rec.decoded.fields)}
    IN \E i \in 1..Len(columns) :
          canonicalize(columns[i]) \in {canonicalize(n) : n \in names}

\* C4: in the extra-fields update of either importer, if no CSV column of the
\* row matches any existing extra-field definition of the fetched record, no
\* PATCH call is issued at all.
C4_NoMatchNoPatch ==
    \A j \in 2..Len(log) :
        (log[j].row >= 1 /\ IsMetadataPatch(log[j])) => ColumnMatches(log[j-1])

\* C5: for every row and every fetched record, the set of extra_fields keys in
\* the metadata PATCH sent by post_extra_fields_from_row equals the set of
\* extra_fields keys of the fetched record: no key is added or removed.
C5_PatchKeepsKeySet ==
    imp_kind = "resources" =>
    \A j \in 2..Len(log) :
        (log[j].row >= 1 /\ IsMetadataPatch(log[j])) =>
           SeqToSet(DictKeys(log[j].data["metadata"].obj.extra_fields))
             = SeqToSet(DictKeys(ParsedMetadata(log[j-1].resp.rec).extra_fields))

C5_Witness ==
    /\ imp_kind = "resources"
    /\ \E j \in 2..Len(log) :
          /\ log[j].row >= 1 /\ IsMetadataPatch(log[j])
          /\ SeqToSet(DictKeys(log[j].data["metadata"].obj.extra_fields))
                = {s_Notes, s_Color}

\* ========================================================================
\* Claims about paged_fetch (checked under SpecPaged)

\* the calls issued at the offset of call k
CallsAt(o) == {j \in 1..Len(calls) : calls[j].offset = o}

\* call k returned a page shorter than the limit it was requested with
ShortPage(k) == resps[k] >= 0 /\ resps[k] < calls[k].limit

\* C6: paged_fetch stops after the first page that holds fewer items than the
\* limit it was requested with and issues no GET after it; a source returning
\* [1,2] then [3] with page_size=2 yields 1,2,3 with exactly 2 GET calls.
C6_StopsAfterShortPage ==
    /\ \A k \in 1..Len(calls) :
          ShortPage(k) => (k = Len(calls) /\ pf_pc = "done")
    /\ (page_size = 2 /\ Len(resps) >= 2 /\ resps[1] = 2 /\ resps[2] = 1)
          => (yielded = <<1, 2, 3>> /\ Len(calls) = 2 /\ pf_pc = "done")

\* C7: after each timeout with retries remaining the next GET is issued at the
\* same offset with limit max(min_limit, ceil(previous_limit/2)); page_size=6,
\* min_limit=2 and two timeouts give the attempts (6,0), (3,0), (2,0).
C7_RetryHalvesLimit ==
    /\ \A k \in 1..Len(calls) :
          (resps[k] = TIMEOUT /\ calls[k].attempt < max_retries /\ k < Len(calls))
          => /\ calls[k+1].offset = calls[k].offset
             /\ calls[k+1].limit =
                   (IF 2 * min_limit >= calls[k].limit + 1
                    THEN min_limit
                    ELSE (calls[k].limit + 1) \div 2)
    /\ (page_size = 6 /\ min_limit = 2 /\ max_retries >= 2 /\ Len(calls) >= 3
        /\ resps[1] = TIMEOUT /\ resps[2] = TIMEOUT)
          => /\ <<calls[1].limit, calls[1].offset>> = <<6, 0>>
             /\ <<calls[2].limit, calls[2].offset>> = <<3, 0>>
             /\ <<calls[3].limit, calls[3].offset>> = <<2, 0>>

C7_Witness ==
    /\ page_size = 6 /\ min_limit = 2 /\ Len(calls) = 3
    /\ resps = <<TIMEOUT, TIMEOUT, 2>>
    /\ pf_pc = "get"

\* every attempt at the offset of call k timed out, and k is the last of them
AllTimedOut(k) ==
    /\ \A j \in CallsAt(calls[k].offset) : resps[j] = TIMEOUT /\ j <= k
    /\ Cardinality(CallsAt(calls[k].offset)) = max_retries + 1

\* C8: at any single offset at most max_retries+1 GET attempts are issued; if
\* all of them time out, nothing is yielded for that window, no error is
\* raised, the offset advances by the last attempted limit and fetching
\* continues from the new offset.
C8_ExhaustedWindowSkipped ==
    /\ \A k \in 1..Len(calls) :
          Cardinality(CallsAt(calls[k].offset)) <= max_retries + 1
    /\ \A k \in 1..Len(calls) :
          AllTimedOut(k) =>
             IF k = Len(calls)
             THEN /\ pf_pc = "get"
                  /\ offset = calls[k].offset + calls[k].limit
                  /\ Len(yielded) = calls[k].ny
             ELSE /\ calls[k+1].offset = calls[k].offset + calls[k].limit
                  /\ calls[k+1].ny = calls[k].ny

C8_Witness ==
    \E k \in 1..Len(calls) :
        /\ AllTimedOut(k)
        /\ k < Len(calls)
        /\ max_retries >= 1
        /\ resps[Len(calls)] > 0

\* ========================================================================
\* Claims about patch_existing (checked under SpecImport)

\* C9: the known-field PATCH payload built by patch_existing contains a key
\* for title, tags, body, category or date only when a non-empty value is
\* supplied for it; an absent or empty field is never sent.
C9_OnlyNonEmptyFieldsSent ==
    \A j \in 1..Len(log) :
        log[j].op = "PATCH" =>
           /\ \A k \in {"title", "body", "category", "date"} \cap DOMAIN log[j].data :
                 log[j].data[k] \notin {EmptyStr, None}
           /\ "tags" \in DOMAIN log[j].data => log[j].data["tags"] # <<>>

\* the known-field PATCHes and the record GETs issued for the k-th call of
\* ExperimentsImporter.patch_existing
KnownPatchesOf(k) ==
    {j \in 1..Len(log) : log[j].row = invoked[k].row /\ IsKnownPatch(log[j])}
ExtraUpdatesOf(k) ==
    {j \in 1..Len(log) : /\ log[j].row = invoked[k].row /\ log[j].op = "GET"
                         /\ log[j].id = invoked[k].id}

\* C10 as stated: ExperimentsImporter.patch_existing issues the known-field
\* PATCH if and only if the payload built from the row is non-empty, and the
\* extra-fields update is attempted on every call, whether or not a
\* known-field PATCH was issued and whatever its outcome.
C10_ExtraUpdateAlwaysAttempted ==
    imp_kind = "experiments" =>
    \A k \in 1..Len(invoked) :
        /\ (KnownPatchesOf(k) # {}) <=> (invoked[k].args # EmptyMap)
        /\ ExtraUpdatesOf(k) # {}

\* C10 amended: the known-field PATCH is issued if and only if the payload is
\* non-empty; the extra-fields update is attempted exactly when no known-field
\* PATCH was issued or the PATCH was accepted; when the PATCH is refused,
\* patch_existing raises HTTPError with nothing issued after the PATCH.
C10_ExtraUpdateUnlessPatchRefused ==
    imp_kind = "experiments" =>
    \A k \in 1..Len(invoked) :
        /\ (KnownPatchesOf(k) # {}) <=> (invoked[k].args # EmptyMap)
        /\ Cardinality(KnownPatchesOf(k)) <= 1
        /\ \A j \in KnownPatchesOf(k) :
              /\ log[j].id = invoked[k].id
              /\ log[j].data = invoked[k].args
              /\ log[j].ok => (ExtraUpdatesOf(k) # {} /\ \A g \in ExtraUpdatesOf(k) : g > j)
              /\ ~log[j].ok => /\ ExtraUpdatesOf(k) = {}
                               /\ j = Len(log)
                               /\ run = "raised"
                               /\ err.type = "HTTPError"
        /\ KnownPatchesOf(k) = {} => ExtraUpdatesOf(k) # {}

C10_Witness ==
    /\ imp_kind = "experiments" /\ Len(invoked) = 2
    /\ KnownPatchesOf(1) # {} /\ ExtraUpdatesOf(1) # {}
    /\ KnownPatchesOf(2) # {} /\ ExtraUpdatesOf(2) = {}
    /\ run = "raised"

\* ========================================================================
\* Claims about experiment_import (checked under SpecImport)

\* the id cell of row r, whether it holds an integer, and that integer
IdCell(r) == Cell(columns, df[r], s_id)
IdCellInteger(cell) ==
    \/ (~IsFloat(cell) /\ cell # NaN /\ IsDigit(cell))
    \/ (IsFloat(cell) /\ \A i \in 1..Len(cell) :
                            cell[i] = "." => \A j \in (i+1)..Len(cell) : cell[j] = "0")
IdCellValue(cell) ==
    IF IsFloat(cell)
    THEN SubSeq(cell, 2, (CHOOSE i \in 1..Len(cell) : cell[i] = ".") - 1)
    ELSE cell

CreatesOf(r) == {j \in 1..Len(RowCalls(r)) : IsCreatePost(RowCalls(r)[j])}
InvokedFor(r) == SelectSeq(invoked, LAMBDA c : c.row = r)
\* row r was handled to its end without an exception
RowCompleted(r) == r < row_i \/ (r = row_i /\ run \in {"running", "done"})

\* C11: in experiment_import, for each row in CSV order, an empty or NaN id
\* cell gives one create and then a patch of the id that create returned; an
\* integer id cell gives no create and a patch of exactly that id; over a run
\* without failures the creates number the rows without id and patch_existing
\* is called exactly once per row.
C11_CreateThenPatchPerRow ==
    imp_kind = "experiments" =>
    /\ \A r \in 1..row_i :
          LET cs == RowCalls(r)
              inv == InvokedFor(r)
          IN /\ (IdCell(r) = NaN /\ cs # <<>>) =>
                   /\ CreatesOf(r) = {1}
                   /\ \A j \in 2..Len(cs) : cs[j].id = IdFor(r)
                   /\ \A k \in 1..Len(inv) : inv[k].id = IdFor(r)
             /\ IdCellInteger(IdCell(r)) =>
                   /\ CreatesOf(r) = {}
                   /\ \A j \in 1..Len(cs) : cs[j].id = IdCellValue(IdCell(r))
                   /\ \A k \in 1..Len(inv) : inv[k].id = IdCellValue(IdCell(r))
             /\ RowCompleted(r) =>
                   /\ Len(inv) = 1
                   /\ IdCell(r) = NaN => Cardinality(CreatesOf(r)) = 1
    /\ \A k \in 1..Len(invoked) : k > 1 => invoked[k-1].row < invoked[k].row
    /\ run = "done" =>
          /\ Len(invoked) = Len(df)
          /\ Cardinality({j \in 1..Len(log) : IsCreatePost(log[j])})
                = Cardinality({r \in 1..Len(df) : IdCell(r) = NaN})

C11_Witness ==
    /\ imp_kind = "experiments" /\ run = "done" /\ Len(df) = 2
    /\ IdCell(1) = NaN /\ IdCellInteger(IdCell(2))
    /\ Len(invoked) = 2
    /\ invoked[1].id = IdFor(1) /\ invoked[2].id = <<"7">>

\* C12: get_elab_id returns the last path segment of the POST response's
\* Location header (a trailing '/' ignored) when that segment is all digits,
\* and raises an error otherwise, including when the header is missing; in
\* create_new the error propagates, so no upload or PATCH is issued for an id
\* that could not be parsed.
C12_UnparsedIdStopsRow ==
    \A r \in 1..row_i :
        LET cs == RowCalls(r)
        IN (cs # <<>> /\ IsCreatePost(cs[1]) /\ cs[1].ok) =>
           IF cs[1].resp.location = LocationFor(r)
           THEN /\ Len(cs) >= 2
                /\ \A j \in 2..Len(cs) : cs[j].id = IdFor(r)
                /\ ~(run = "raised" /\ r = row_i /\ Len(cs) = 1)
           ELSE /\ Len(cs) = 1
                /\ r = row_i
                /\ run = "raised"
                /\ err.type = "RuntimeError"
                /\ err.text = (IF cs[1].resp.location = None
                               THEN <<"N","o","n","e">> ELSE <<"a","b">>)

C12_Witness ==
    /\ imp_kind = "resources" /\ row_i = 2 /\ run = "raised"
    /\ new_resources_counter = 1
    /\ err.text = <<"a","b">>
    /\ Len(RowCalls(2)) = 1 /\ RowCalls(2)[1].ok

\* the category-id cell of row r (NaN when the CSV has no such column)
CategoryCell(r) ==
    IF resolve_category_col(columns) = None THEN NaN
    ELSE Cell(columns, df[r], resolve_category_col(columns))
\* a cell that is non-empty and not all digits
NonEmptyNotDigits(cell) ==
    cell # NaN /\ Strip(StrOf(cell)) # EmptyStr /\ ~IsDigit(Strip(StrOf(cell)))

\* C13: in experiment_import, a row whose category-id cell is non-empty and
\* not all digits, or whose id cell is non-empty and not an integer, raises
\* ValueError before any POST or PATCH is issued for that row, and no later
\* row is processed.
C13_InvalidIdRaisesValueError ==
    imp_kind = "experiments" =>
    \A r \in 1..row_i :
        (\/ NonEmptyNotDigits(CategoryCell(r))
         \/ (IdCell(r) # NaN /\ ~IdCellInteger(IdCell(r)))) =>
           /\ RowCalls(r) = <<>>
           /\ r = row_i
           /\ run = "raised"
           /\ err.type = "ValueError"

\* ========================================================================
\* Claims about attachments (checked under SpecImport)

\* C14: in create_new, after a successful POST, a failure of the attachment
\* step (a missing path, or attach_files failing for one or more files) does
\* not block the row: the extra-fields update is still attempted (its GET is
\* issued) and, unless that update itself fails, the new id is returned.
C14_AttachFailureDoesNotBlockRow ==
    imp_kind = "resources" =>
    \A r \in 1..row_i :
        LET cs == RowCalls(r)
        IN (cs[1].ok /\ cs[1].resp.location = LocationFor(r)) =>
           /\ \E j \in 1..Len(cs) : cs[j].op = "GET"
           /\ (\A j \in 1..Len(cs) : cs[j].op = "PATCH" => cs[j].ok)
                 => (r <= Len(ids) /\ ids[r] = IdFor(r))

\* a direct call of attach_files on a folder with files, with a usable id
AttachCall ==
    /\ imp_kind = "resources" /\ run \in {"attached", "raised"}
    /\ Len(invoked) = 1 /\ "chunk_size" \in DOMAIN invoked[1].args
    /\ IsDigit(invoked[1].id) /\ FilesIn(invoked[1].args.folder) # <<>>
AttachFiles == FilesIn(invoked[1].args.folder)
SomeUploadFailed == \E j \in 1..Len(log) : ~log[j].ok
FirstFailed == CHOOSE j \in 1..Len(log) : ~log[j].ok /\ \A i \in 1..(j-1) : log[i].ok
\* the requests of the per-file path: all of them when chunk_size is 1, those
\* after the failed batch otherwise
PerFileCalls ==
    IF invoked[1].args.chunk_size > 1
    THEN IF SomeUploadFailed THEN SubSeq(log, FirstFailed + 1, Len(log)) ELSE <<>>
    ELSE log
FirstAttempts == SelectSeq(PerFileCalls, LAMBDA c : c.data["field"] = "files[]")

\* C15: in attach_files with chunk_size > 1, if sending any batch fails,
\* attach_files does not raise at that point: it then posts every file of the
\* full file list individually, in order, the files of batches not yet
\* attempted (and of batches already accepted) included.
C15_BatchFailureRetriesEveryFile ==
    (AttachCall /\ invoked[1].args.chunk_size > 1 /\ SomeUploadFailed) =>
       /\ Len(log) > FirstFailed
       /\ Len(FirstAttempts) = Len(AttachFiles)
       /\ \A i \in 1..Len(AttachFiles) :
             FirstAttempts[i].data["files"] = <<AttachFiles[i]>>

C15_Witness ==
    /\ AttachCall /\ invoked[1].args.chunk_size = 2
    /\ Len(log) >= 2 /\ log[1].ok /\ ~log[2].ok
    /\ log[1].data["files"] = <<1, 2>>
    /\ run = "attached"

\* file x was accepted (2xx) in some request; in some request of the per-file path
Accepted(x) ==
    \E j \in 1..Len(log) : log[j].ok /\ x \in SeqToSet(log[j].data["files"])
AcceptedAlone(x) ==
    \E j \in 1..Len(PerFileCalls) :
        PerFileCalls[j].ok /\ PerFileCalls[j].data["files"] = <<x>>
Attempted(x) ==
    \E j \in 1..Len(log) : x \in SeqToSet(log[j].data["files"])

C17_SecondAttemptAfterAnyFailure ==
    AttachCall =>
       \A j \in 1..Len(PerFileCalls) :
           (PerFileCalls[j].data["field"] = "files[]" /\ ~PerFileCalls[j].ok) =>
              /\ j < Len(PerFileCalls)
              /\ PerFileCalls[j+1].data["field"] = "file"
              /\ PerFileCalls[j+1].data["files"] = PerFileCalls[j].data["files"]

\* ------------------------------------------------------------------------
\* Claims about _coerce_for_field

CoerceReturned == fn = "coerce" /\ fn_pc = "returned"

\* the option a token matches exactly or, failing that, case-insensitively
TokenOption(opts, v) == IF v \in opts THEN v ELSE LowerGet(opts, v)

\* a sequence without its repeated elements, first occurrences kept
RECURSIVE Dedup(_, _)
Dedup(q, seen) ==
    IF q = <<>> THEN seen
    ELSE Dedup(Tail(q), IF Head(q) \in SeqToSet(seen) THEN seen
                        ELSE Append(seen, Head(q)))

\* every token mapped to its option, unmatched tokens and duplicates dropped
MappedTokens(defn, raw) ==
    LET vals == _split_multi(raw)
        opts == OptionsSet(defn)
        mapped == [i \in 1..Len(vals) |-> TokenOption(opts, vals[i])]
    IN Dedup(SelectSeq(mapped, LAMBDA m : m # None), <<>>)

\* C18: for a select definition with allow_multi_values, _coerce_for_field
\* returns the options matched by the tokens of the raw value, each token
\* matched exactly or else case-insensitively, without unmatched tokens and
\* duplicates, in first-seen order
C18_MultiMapsEveryToken ==
    (CoerceReturned /\ fn_args.defn.multi)
        => fn_ret = Coerced(ListVal(MappedTokens(fn_args.defn, fn_args.raw)))

\* ------------------------------------------------------------------------
\* Claims about post_extra_fields_from_row and unmatched select values

\* the record fetched by call c defines Color as a single-valued select and
\* the Color cell of row r holds a value that is none of its options, in any
\* letter case
UnmatchedSelect(r, c) ==
    LET ef == ParsedMetadata(c.resp.rec).extra_fields
        cell == Cell(columns, df[r], s_Color)
    IN /\ c.op = "GET" /\ c.resp.rec.fetched
       /\ DictHas(ef, s_Color)
       /\ DictGet(ef, s_Color).type = s_select /\ ~DictGet(ef, s_Color).multi
       /\ cell # NaN
       /\ \A o \in OptionsSet(DictGet(ef, s_Color)) : Lower(o) # Lower(cell)

\* the only other extra column of the resources CSV, Notes, holds a value
\* for a field of the record fetched by call c
OtherColumnChanges(r, c) ==
    /\ Cell(columns, df[r], s_Notes) # NaN
    /\ DictHas(ParsedMetadata(c.resp.rec).extra_fields, s_Notes)

\* C19: in post_extra_fields_from_row, when the CSV value of a matched
\* single-valued select field matches none of its options, the field is
\* skipped: a PATCH that is sent carries the field as it was fetched, no error
\* is raised for it, and when no other column changed anything no PATCH is
\* issued after the GET.
C19_UnmatchedSelectSkipped ==
    imp_kind = "resources" =>
    \A j \in 1..Len(log) :
        LET r == log[j].row
            last == j = Len(log) \/ log[j+1].row # r
        IN (r >= 1 /\ UnmatchedSelect(r, log[j])) =>
           /\ OtherColumnChanges(r, log[j]) =>
                 /\ ~last /\ IsMetadataPatch(log[j+1])
                 /\ DictGet(log[j+1].data["metadata"].obj.extra_fields, s_Color)
                       = DictGet(ParsedMetadata(log[j].resp.rec).extra_fields, s_Color)
                 /\ log[j+1].ok => RowCompleted(r)
           /\ ~OtherColumnChanges(r, log[j]) => (last /\ RowCompleted(r))

C19_Witness ==
    /\ imp_kind = "resources" /\ run = "done" /\ Len(df) = 2
    /\ \E j \in 1..Len(log) :
          /\ log[j].row = 1 /\ UnmatchedSelect(1, log[j])
          /\ OtherColumnChanges(1, log[j]) /\ IsMetadataPatch(log[j+1])
    /\ \E j \in 1..Len(log) :
          /\ log[j].row = 2 /\ UnmatchedSelect(2, log[j])
          /\ ~OtherColumnChanges(2, log[j]) /\ j = Len(log)

\* ------------------------------------------------------------------------
\* Claims about the column index

IndexReturned == fn = "index" /\ fn_pc = "returned"

\* the position of the first header with the canonical form of header i
FirstWithCanon(headers, i) ==
    CHOOSE j \in 1..Len(headers) :
        /\ canonicalize(headers[j]) = canonicalize(headers[i])
        /\ \A k \in 1..(j - 1) : canonicalize(headers[k]) # canonicalize(headers[i])

\* C20: for every header sequence, the column index maps each canonical key
\* to the first header in input order that has that canonical form, and to
\* nothing else: a later header with the same canonical key never replaces it.
C20_FirstHeaderWins ==
    IndexReturned =>
       LET canon_map == fn_ret.canon_map
       IN /\ SeqToSet(DictKeys(canon_map))
                = {canonicalize(fn_args[i]) : i \in 1..Len(fn_args)}
          /\ \A i, j \in 1..Len(canon_map) :
                canon_map[i][1] = canon_map[j][1] => i = j
          /\ \A i \in 1..Len(fn_args) :
                DictGet(canon_map, canonicalize(fn_args[i]))
                   = fn_args[FirstWithCanon(fn_args, i)]

C20_Witness ==
    /\ IndexReturned
    /\ fn_args = << <<"C","o"," ","l","o","r">>, <<"T","a","g","s">>, s_Color >>
    /\ fn_ret.canon_map = << << <<"c","o","l","o","r">>, <<"C","o"," ","l","o","r">> >>,
                             << <<"t","a","g","s">>, <<"T","a","g","s">> >> >>

\* a header in lower case without its spaces, hyphens and underscores
Unseparated(h) == RemoveChar(RemoveChar(RemoveChar(Lower(h), " "), "-"), "_")

\* C21: headers that differ only in letter case, spaces, hyphens and
\* underscores have the same canonical key, hence one entry of the column
\* index; headers ['Category ID', 'category_id'] give exactly one canonical
\* entry, which maps to 'Category ID'.
C21_SeparatorsIgnored ==
    IndexReturned =>
       /\ \A i, j \in 1..Len(fn_args) :
             Unseparated(fn_args[i]) = Unseparated(fn_args[j])
                => canonicalize(fn_args[i]) = canonicalize(fn_args[j])
       /\ fn_args = <<s_CategoryID, s_category_id>>
             => /\ Len(fn_ret.canon_map) = 1
                /\ fn_ret.canon_map[1][2] = s_CategoryID

\* ------------------------------------------------------------------------
\* Claims about _find_col_like

FindReturned == fn = "find" /\ fn_pc = "returned"

\* the first header of cols satisfying P, or None
FirstHeader(cols, P(_)) ==
    IF \E i \in 1..Len(cols) : P(cols[i])
    THEN cols[CHOOSE i \in 1..Len(cols) :
                 P(cols[i]) /\ \A j \in 1..(i - 1) : ~P(cols[j])]
    ELSE None

\* exact canonical match first, then containment either way, in column order
ExactThenContained(cols, target) ==
    LET key == canonicalize(target)
        Exact(h) == canonicalize(h) = key
        Either(h) == Contains(key, canonicalize(h)) \/ Contains(canonicalize(h), key)
    IN IF FirstHeader(cols, Exact) # None THEN FirstHeader(cols, Exact)
       ELSE FirstHeader(cols, Either)

\* C22: _find_col_like(target) returns the header whose canonical key equals
\* the canonical target whenever there is one, whatever precedes it; failing
\* that the first header, in column order, whose canonical key contains the
\* target or is contained in it; and None when nothing matches.
C22_ExactMatchFirst ==
    FindReturned => fn_ret = ExactThenContained(fn_args.cols, fn_args.target)

\* ------------------------------------------------------------------------
\* Claims about get_tags

TagsReturned == fn = "tags" /\ fn_pc = "returned"

\* the delimiter the claim names for a cell: the first of ';', ',', '|' that
\* occurs anywhere in it, "" when none does
ClaimedDelim(val) ==
    IF \E i \in 1..Len(val) : val[i] = ";" THEN ";"
    ELSE IF \E i \in 1..Len(val) : val[i] = "," THEN ","
    ELSE IF \E i \in 1..Len(val) : val[i] = "|" THEN "|"
    ELSE ""

\* the positions of the delimiter in the cell, with both ends of the cell
Cuts(val, d) == {0, Len(val) + 1} \cup {i \in 1..Len(val) : val[i] = d}

\* the text between two positions without its leading and trailing blanks
Trimmed(val, lo, hi) ==
    LET inner == {i \in (lo + 1)..(hi - 1) : val[i] # " "}
    IN IF inner = {} THEN EmptyStr
       ELSE SubSeq(val, CHOOSE i \in inner : \A j \in inner : i <= j,
                        CHOOSE i \in inner : \A j \in inner : j <= i)

\* tags is the sequence of the non-empty trimmed parts of val cut at d
IsPartsOf(tags, val, d) ==
    LET cuts == Cuts(val, d)
        full == {lo \in cuts \ {Len(val) + 1} :
                    Trimmed(val, lo, CHOOSE hi \in cuts :
                        hi > lo /\ \A c \in cuts : c > lo => hi <= c) # EmptyStr}
        NextCut(lo) == CHOOSE hi \in cuts : hi > lo /\ \A c \in cuts : c > lo => hi <= c
        Rank(lo) == Cardinality({x \in full : x <= lo})
    IN /\ Len(tags) = Cardinality(full)
       /\ \A lo \in full : tags[Rank(lo)] = Trimmed(val, lo, NextCut(lo))

\* C23: for a string tags cell, get_tags splits on exactly one delimiter, the
\* first of ';', ',', '|' (in that priority) that occurs anywhere in the
\* string, trims the parts and drops the empty ones; without a delimiter the
\* whole trimmed string is the single tag; 'a; b | c' gives ['a', 'b | c']
\* and 'a,b,c' gives ['a', 'b', 'c'].
C23_SplitsOnFirstDelimiter ==
    TagsReturned =>
       /\ IsPartsOf(fn_ret, fn_args, ClaimedDelim(fn_args))
       /\ fn_args = <<"a",";"," ","b"," ","|"," ","c">>
             => fn_ret = << <<"a">>, <<"b"," ","|"," ","c">> >>
       /\ fn_args = <<"a",",","b",",","c">>
             => fn_ret = << <<"a">>, <<"b">>, <<"c">> >>

C23_Witness ==
    /\ TagsReturned
    /\ fn_args = <<"a",",","b",";">>
    /\ fn_ret = << <<"a",",","b">> >>

\* ------------------------------------------------------------------------
\* Claims about normalize_id

NormalizeReturned == fn = "normalize" /\ fn_pc = "returned"

\* the digits of a float cell before its decimal point, and whether only
\* zeros follow the point
WholePart(v) == SubSeq(v, 2, (CHOOSE i \in 1..Len(v) : v[i] = ".") - 1)
OnlyZerosAfterPoint(v) ==
    \A i \in 1..Len(v) : v[i] = "." => \A j \in (i + 1)..Len(v) : v[j] = "0"

\* C24: normalize_id is total and never raises: None and NaN give None; a
\* float with integer value gives the decimal string of that integer; a
\* string is trimmed; a value whose trimmed string form is '', 'nan', 'none'
\* or 'null' in any letter case gives None; every other value gives its
\* trimmed string form.
C24_NormalizeId ==
    NormalizeReturned =>
       IF fn_args \in {None, NaN} THEN fn_ret = None
       ELSE IF IsFloat(fn_args)
       THEN fn_ret = (IF OnlyZerosAfterPoint(fn_args) THEN WholePart(fn_args)
                      ELSE Tail(fn_args))
       ELSE LET t == Trimmed(fn_args, 0, Len(fn_args) + 1)
            IN IF Lower(t) \in { EmptyStr, <<"n","a","n">>, <<"n","o","n","e">>,
                                 <<"n","u","l","l">> }
               THEN fn_ret = None
               ELSE fn_ret = t

C24_Witness ==
    /\ NormalizeReturned
    /\ fn_args = <<" ","N","O","N","E"," ">>
    /\ fn_ret = None

\* ------------------------------------------------------------------------
\* Claims about the metadata PATCH (checked under SpecImport)

\* C25: every PATCH that updates extra fields, in
\* ResourcesImporter.post_extra_fields_from_row and in
\* BaseImporter.update_extra_fields_from_row, carries metadata as a
\* JSON-encoded string of the whole metadata object, never as a nested object.
C25_MetadataSentAsJsonText ==
    \A j \in 1..Len(log) :
        IsMetadataPatch(log[j]) =>
           /\ log[j].data["metadata"].json
           /\ DOMAIN log[j].data["metadata"].obj = {"extra_fields", "other"}

\* extra field k of the record is named, up to canonical form, by a column of
\* the CSV whose cell in row r is not empty
MatchedByColumn(r, k) ==
    \E i \in 1..Len(columns) :
        /\ canonicalize(columns[i]) = canonicalize(k)
        /\ df[r][i] # NaN /\ Strip(StrOf(df[r][i])) # EmptyStr

\* C26: in the metadata sent by post_extra_fields_from_row, every extra field
\* not matched by a non-empty CSV column, every attribute other than value of
\* a matched field (type, options, allow_multi_values), and every metadata key
\* other than extra_fields are those of the fetched record.
C26_PatchKeepsUntouchedFields ==
    imp_kind = "resources" =>
    \A j \in 2..Len(log) :
        (log[j].row >= 1 /\ IsMetadataPatch(log[j])) =>
           LET sent == log[j].data["metadata"].obj
               fetched == ParsedMetadata(log[j-1].resp.rec)
           IN /\ sent.other = fetched.other
              /\ DictKeys(sent.extra_fields) = DictKeys(fetched.extra_fields)
              /\ \A i \in 1..Len(fetched.extra_fields) :
                    LET was == fetched.extra_fields[i][2]
                        now == sent.extra_fields[i][2]
                    IN /\ [now EXCEPT !.value = was.value] = was
                       /\ ~MatchedByColumn(log[j].row, fetched.extra_fields[i][1])
                             => now = was

C26_Witness ==
    /\ imp_kind = "resources"
    /\ \E j \in 2..Len(log) :
          /\ log[j].row >= 1 /\ IsMetadataPatch(log[j])
          /\ LET sent == log[j].data["metadata"].obj
                 fetched == ParsedMetadata(log[j-1].resp.rec)
             IN /\ Len(fetched.extra_fields) = 2
                /\ sent.other = <<"k">>
                /\ MatchedByColumn(log[j].row, s_Color)
                /\ ~MatchedByColumn(log[j].row, s_Notes)
                /\ DictGet(sent.extra_fields, s_Color).value = ListVal(<<s_Red>>)
                /\ DictGet(sent.extra_fields, s_Notes).value = StrVal(<<"n">>)

\* the canonical names the resources importer and the experiments importer
\* leave out of the extra-fields update: the known fields, and the resolved
\* files-path column of the resources CSV
KnownNames ==
    { <<"t","i","t","l","e">>, <<"t","a","g","s">>, <<"c","a","t","e","g","o","r","y">>,
      <<"t","e","m","p","l","a","t","e">>, <<"b","o","d","y">> }
        \cup (IF imp_kind = "resources" /\ _find_path_col(columns) # None
              THEN {canonicalize(_find_path_col(columns))} ELSE {})

\* field name k is, in canonical form, a known name carried by a CSV column
\* whose cell in row r is not empty
KnownColumnNames(r, k) ==
    /\ canonicalize(k) \in KnownNames
    /\ MatchedByColumn(r, k)

\* the extra fields sent by a metadata PATCH and those fetched by the GET
\* before it, as name -> value pairs
SentFields(j) ==
    LET obj == log[j].data["metadata"].obj
    IN IF imp_kind = "resources"
       THEN [i \in 1..Len(obj.extra_fields) |->
                <<obj.extra_fields[i][1], obj.extra_fields[i][2].value>>]
       ELSE [i \in 1..Len(obj.extra_fields) |->
                <<obj.extra_fields[i].title, obj.extra_fields[i].value>>]
FetchedFields(j) ==
    LET rec == log[j-1].resp.rec
    IN IF imp_kind = "resources"
       THEN [i \in 1..Len(ParsedMetadata(rec).extra_fields) |->
                <<ParsedMetadata(rec).extra_fields[i][1],
                  ParsedMetadata(rec).extra_fields[i][2].value>>]
       ELSE [i \in 1..Len(rec.decoded.fields) |->
                <<rec.decoded.fields[i].title, rec.decoded.fields[i].value>>]

\* C27: a CSV column whose canonical name is a known field (title, tags,
\* category, template, body) or is the resolved files-path column never
\* changes an extra field, even when the record has an extra-field definition
\* with the same canonical name.
C27_KnownColumnsNeverWritten ==
    \A j \in 2..Len(log) :
        (log[j].row >= 1 /\ IsMetadataPatch(log[j])) =>
           \A i \in 1..Len(FetchedFields(j)) :
               KnownColumnNames(log[j].row, FetchedFields(j)[i][1]) =>
                  \E k \in 1..Len(SentFields(j)) : SentFields(j)[k] = FetchedFields(j)[i]

C27_Witness ==
    /\ imp_kind = "resources"
    /\ \E j \in 2..Len(log) :
          /\ log[j].row >= 1 /\ IsMetadataPatch(log[j])
          /\ KnownColumnNames(log[j].row, s_Title)
          /\ KnownColumnNames(log[j].row, s_attachments)
          /\ SentFields(j) = << <<s_Title, StrVal(<<"t","0">>)>>,
                                <<s_attachments, StrVal(<<"f","0">>)>>,
                                <<s_Color, StrVal(s_Blue)>> >>

\* ------------------------------------------------------------------------
\* Claims about create_new (checked under SpecImport)

\* C28: the template sent in the POST payload of ResourcesImporter.create_new
\* is the explicit template argument when one is given, and the importer's
\* default template otherwise.
C28_ExplicitTemplateSent ==
    imp_kind = "resources" =>
    \A j \in 1..Len(log) :
        (log[j].row >= 1 /\ IsCreatePost(log[j])) =>
           log[j].data["template"] =
              (IF templates.arg # EmptyStr THEN templates.arg ELSE templates.self)

\* the files-path cell of row r
PathCell(r) == Cell(columns, df[r], _find_path_col(columns))
Uploads(cs) == {j \in 1..Len(cs) : cs[j].sub = "uploads"}

\* C29: in create_new, when the files-path cell resolves to an existing
\* directory its files are uploaded by attach_files, and when it resolves to
\* an existing single file that file is uploaded directly; only a path that
\* does not exist leads to a warning with no upload.
C29_ExistingPathUploaded ==
    imp_kind = "resources" =>
    \A r \in 1..row_i :
        LET cs == RowCalls(r)
        IN (cs[1].ok /\ cs[1].resp.location = LocationFor(r)) =>
           /\ PathCell(r) = p_dir =>
                 /\ Uploads(cs) # {}
                 /\ \A x \in SeqToSet(FilesIn(p_dir)) :
                       \E j \in Uploads(cs) : x \in SeqToSet(cs[j].data["files"])
           /\ (PathCell(r) # NaN /\ PathExists(PathCell(r)) /\ ~IsDir(PathCell(r)))
                 => Uploads(cs) # {}
           /\ (PathCell(r) = NaN \/ ~PathExists(PathCell(r))) => Uploads(cs) = {}

\* ------------------------------------------------------------------------
\* Claims about ResourcesExporter.fetch_data (checked under SpecExport)

\* the page GETs issued so far
PageGets == SelectSeq(ex_events, LAMBDA e : e.op = "GET")

\* C30: ResourcesExporter.fetch_data validates the category id exactly once
\* before the first page GET, then requests pages at offsets start,
\* start+page_size, start+2*page_size, ... until the first page with fewer
\* than page_size records, and returns a table with exactly one row per
\* record received, in the order received.
C30_PagesUntilShortPage ==
    /\ \A k \in 1..Len(ex_events) : (ex_events[k].op = "validate") <=> (k = 1)
    /\ \A k \in 1..Len(PageGets) :
          /\ PageGets[k].offset = ex_start + (k - 1) * ex_page_size
          /\ PageGets[k].limit = ex_page_size
          /\ (PageGets[k].ok /\ Len(PageGets[k].page) < ex_page_size)
                => (k = Len(PageGets) /\ ex_pc = "done")
    /\ ex_pc = "done" =>
          /\ PageGets # <<>>
          /\ Len(PageGets[Len(PageGets)].page) < ex_page_size
          /\ ex_table = Flatten([k \in 1..Len(PageGets) |-> PageGets[k].page])

C30_Witness ==
    /\ ex_pc = "done" /\ ex_start = 1 /\ ex_page_size = 2
    /\ Len(PageGets) = 3
    /\ PageGets[2].offset = 3 /\ Len(PageGets[1].page) = 3
    /\ ex_table = <<1, 2, 3, 4, 5, 6>>

\* ------------------------------------------------------------------------
\* Claims about the extra-fields step (checked under SpecImport)

\* call j is a GET of the existing record that raised or returned JSON that
\* is not an object
FailedGet(j) == log[j].op = "GET" /\ ~log[j].resp.rec.fetched
\* call j is the last call issued for its row
LastOfRow(j) == j = Len(log) \/ log[j+1].row # log[j].row

\* C31: if the GET of the existing record raises or returns JSON that is not
\* an object, get_existing_json yields an empty object without raising, and
\* the extra-fields step that follows issues no PATCH and raises no error.
C31_FailedGetNoPatch ==
    \A j \in 1..Len(log) :
        (log[j].row >= 1 /\ FailedGet(j)) =>
           /\ LastOfRow(j)
           /\ RowCompleted(log[j].row)

C31_Witness ==
    /\ run = "done" /\ Len(df) = 2
    /\ \E j \in 1..Len(log) : log[j].row = 1 /\ FailedGet(j)
    /\ \E j \in 1..Len(log) : log[j].row = 2 /\ IsMetadataPatch(log[j])

\* ------------------------------------------------------------------------
\* Claims about _coerce_for_field on single-valued selects

\* C32: for a single-valued select definition, _coerce_for_field returns the
\* option matched (exactly or, failing that, case-insensitively) by the
\* earliest token of the raw value that matches any option, and returns None
\* if and only if no token matches any option.
C32_SingleTakesEarliestToken ==
    (CoerceReturned /\ ~fn_args.defn.multi) =>
       LET vals == _split_multi(fn_args.raw)
           opts == OptionsSet(fn_args.defn)
           hits == {i \in 1..Len(vals) : TokenOption(opts, vals[i]) # None}
       IN IF hits = {} THEN fn_ret.none
          ELSE /\ ~fn_ret.none
               /\ fn_ret.val = StrVal(TokenOption(opts,
                                   vals[CHOOSE i \in hits : \A k \in hits : i <= k]))

\* ------------------------------------------------------------------------
\* Claims about colliding canonical keys (checked under SpecImport)

\* C33: when two existing extra-field definitions of a record canonicalize
\* to the same key, a matching CSV column updates only the first of them in
\* the record's order and leaves the other unchanged, in both
\* ResourcesImporter.post_extra_fields_from_row and
\* BaseImporter.update_extra_fields_from_row.
C33_FirstDefinitionUpdated ==
    \A j \in 2..Len(log) :
        (log[j].row >= 1 /\ IsMetadataPatch(log[j])) =>
           LET was == FetchedFields(j)
               now == SentFields(j)
           IN \A i, k \in 1..Len(was) :
                 (i < k /\ canonicalize(was[i][1]) = canonicalize(was[k][1])) =>
                    /\ Len(now) = Len(was)
                    /\ now[i][1] = was[i][1]
                    /\ now[k] = was[k]

PostExtraReturned == fn = "post_extra" /\ fn_pc = "returned"

\* C34: when two CSV columns of a row canonicalize to the same key and both
\* hold non-empty values, the value written to the matching extra field is
\* that of the first of the two columns in header order.
C34_FirstColumnWritten ==
    (PostExtraReturned /\ fn_args.row[1] # NaN /\ fn_args.row[2] # NaN) =>
       \A j \in 1..Len(fn_ret.calls) :
           IsMetadataPatch(fn_ret.calls[j]) =>
              LET was == DictGet(ParsedMetadata(fn_args.rec).extra_fields, s_Color)
                  now == DictGet(fn_ret.calls[j].data["metadata"].obj.extra_fields,
                                 s_Color)
                  first == _coerce_for_field(was, fn_args.row[1])
              IN now.value = (IF first.none THEN was.value ELSE first.val)

\* ------------------------------------------------------------------------
\* C35: over a finite collection, whatever the pattern of timeouts (a source
\* whose every GET times out included), paged_fetch eventually stops issuing
\* GETs and terminates.
C35_Terminates == <>(pf_pc = "done")

\* C36: whenever a GET succeeds and returns an empty page, paged_fetch ends
\* without issuing any further GET, however many timeouts preceded that GET at
\* the same offset (exactly max_retries of them included).
C36_EmptyPageEnds ==
    \A k \in 1..Len(calls) :
        resps[k] = 0 => (k = Len(calls) /\ pf_pc = "done")

C38_LimitNeverGrows ==
    \A k \in 1..Len(calls) :
        /\ calls[k].limit <= page_size
        /\ (k < Len(calls) /\ calls[k+1].offset = calls[k].offset)
              => calls[k+1].limit <= calls[k].limit
        /\ (k = 1 \/ calls[k].attempt = 0) => calls[k].limit = page_size

\* the requests of the attach_files call in which file x was accepted (2xx)
AcceptedIn(x) ==
    {j \in 1..Len(log) : log[j].ok /\ x \in SeqToSet(log[j].data["files"])}

\* C39: within one attach_files call no file is accepted (2xx) by the endpoint
\* in more than one request: a file uploaded in a successful batch is not
\* uploaded again by the per-file fallback.
C39_NoFileAcceptedTwice ==
    AttachCall =>
        \A x \in SeqToSet(AttachFiles) : Cardinality(AcceptedIn(x)) <= 1

\* C40: the metadata sent by ResourcesImporter.patch_existing has in
\* extra_fields exactly the keys and the definitions of the fetched record:
\* no extra-field key is renamed, merged with another or dropped.
C40_PatchExistingKeepsKeys ==
    (imp_kind = "resources" /\ Len(invoked) = 1 /\ "title" \in DOMAIN invoked[1].args
     /\ Len(log) = 2 /\ IsMetadataPatch(log[2])) =>
        LET sent == log[2].data["metadata"].obj.extra_fields
            fetched == ParsedMetadata(log[1].resp.rec).extra_fields
        IN /\ Len(sent) = Len(fetched)
           /\ SeqToSet(DictKeys(sent)) = SeqToSet(DictKeys(fetched))
           /\ \A i \in 1..Len(fetched) :
                 DictGet(sent, fetched[i][1]) = fetched[i][2]

====
